---- MODULE Spec2Model ----
(***************************************************************************)
(* Model of the VoC platform's job orchestration core:                     *)
(*   - the queue worker loop          (backend/worker.py)                  *)
(*   - the SQS wrapper                (backend/services/queue_service.py)  *)
(*   - the checkpointed classifier    (backend/services/analyze_reviews.py)*)
(* One job, one queue message, one handler execution at a time.            *)
(***************************************************************************)
EXTENDS Integers, Sequences, FiniteSets, TLC

(***************************************************************************)
(* Bounds of the model.                                                    *)
(***************************************************************************)
\* Size of the large source collection: the smallest one in which a run saves
\* two checkpoints (at 50 and at 100 results) and goes on after the second.
MaxItems == 101
\* Collections of up to this many items get every classifier outcome per item.
MaxFreeItems == 2
\* In a longer collection the first MaxOddCalls classification calls of every
\* run get every classifier outcome (in a resumed run these are the calls
\* that follow the skipped items); the later calls give a labelled object.
MaxOddCalls == 1
\* Handler runs (direct calls or queue deliveries) per behaviour.
MaxRuns == 2
\* Store / queue operations that fail per behaviour.
MaxFaults == 2
\* Poll responses of a session that are kept in pollLog.
MaxLogged == 3
\* Countries (partitions) of the fan-out, taken from the head of
\* PRIORITY_COUNTRIES.
MaxPartitions == 3
\* Locations passed to one batch review fetch.
MaxLocations == 6
\* Worker processes polling the queue, messages in it, and deliveries of one
\* message.
MaxWorkers == 2
MaxMessages == 2
MaxDeliveries == 2
\* Scraping tasks started under one job id.
MaxScrapTasks == 2

(***************************************************************************)
(* Program constants.                                                      *)
(***************************************************************************)
\* analyze_reviews.py:220  len(analyzed_results) % 50 == 0
CheckpointEvery == 50
\* analyze_reviews.py:211  review_num % 5 == 0
ProgressEvery == 5

\* discover_maps_locations.py:53  DEFAULT_POLL_ATTEMPTS = 5
DEFAULT_POLL_ATTEMPTS == 5
\* fetch_maps_reviews.py:95  max_attempts: int = 15
ReviewsPollAttempts == 15
\* discover_maps_locations.py:131  initial_wait: float = 1.0   (milliseconds)
MapsInitialWait == 1000
\* fetch_maps_reviews.py:95  initial_wait: float = 2.0
ReviewsInitialWait == 2000
\* discover_maps_locations.py:167  min(wait_time * 1.5, 5.0)
MapsWaitCeiling == 5000
\* fetch_maps_reviews.py:130  min(wait_time * 1.5, 10.0)
ReviewsWaitCeiling == 10000
\* discover_maps_locations.py:94  @_retry_on_failure(max_retries=1, delay=0.5)
MaxCreateRetries == 1

\* discover_maps_locations.py:52  MAX_LOCATIONS_TARGET = 30
MAX_LOCATIONS_TARGET == 30

\* discover_maps_locations.py:328  ThreadPoolExecutor(max_workers=10)
MapsMaxWorkers == 10
\* fetch_maps_reviews.py:363  ThreadPoolExecutor(max_workers=5)
ReviewsMaxWorkers == 5

\* The job id of the single job of the model, and Python's None.
JobId == "job-1"
None == "None"

VARIABLES
    \* ---- inputs, fixed by Init
    caller,             \* "direct": analyze_reviews(..., job_id=JobId) is called
                        \* "task": main.task_final_analysis runs for JobId
                        \* "worker": the worker loop consumes the queue message
    message,            \* the queue message: [task_type, decodable, object]
    dimensions,         \* the dimensions argument: "list" or None
    openai_key,         \* worker.py OPENAI_API_KEY is set
    total_reviews,      \* len(df_sample): rows of the source collection
    text_column,        \* the source collection has the column 'text'
    \* ---- durable stores (S3 objects)
    statusStore,        \* processing_status/{job}.json
    checkpointStore,    \* checkpoints/{job}.json
    artifacts,          \* number of analyzed_data/*.csv objects uploaded
    \* ---- one execution of analyze_reviews
    pc,                 \* position in analyze_reviews
    job_id,             \* its job_id argument
    idx,                \* loop variable of df_sample.iterrows()
    analyzed_results,   \* list of {index, result}
    processed_indices,  \* skip-set built from the loaded checkpoint
    labels,             \* df_sample['sentiment'] after the merge
    outcome,            \* how the last finished run ended
    callLog,            \* the classification calls of this run, in order:
                        \* [index, outcome]
    save_failed,        \* a checkpoint save of this run failed
    loop_done,          \* the for-loop of lines 203-310 of this run has ended
    exception,          \* the exception that left analyze_reviews, or None
    error_text,         \* the 'error' value of the dict analyze_reviews
                        \* returned: None without the key, "" or "message"
    saveLog,            \* the save_checkpoint calls of this run, in order:
                        \* [idx, results, ok]
    \* ---- history
    runs,               \* handler runs started so far
    faults,             \* failed store / queue operations so far
    prevProcessed,      \* len(analyzed_results) of the previous run at its end,
                        \* kept until the next run has built its skip-set
    prevDue,            \* the cadence points that count had reached:
                        \* [at, before], see Due
    prevOutcome,        \* how the run before the current one ended
    prevSaveFailed,     \* a checkpoint save of the run before the current
                        \* one failed
    lastWritten,        \* the status record this run wrote last, if any
    \* ---- worker loop and queue
    wpc,                \* position in worker.main
    msgState,           \* "visible" | "inflight" | "deleted" | "none"
    receiveCount,       \* deliveries of the message so far
    analysisResults,    \* analysis_results/{job}.json exists
    killed,             \* the worker process was killed after it received
                        \* the message it holds
    deleteCalls,        \* the deliveries after which worker.main called
                        \* delete_message
    \* ---- one session of the external async task client (create, then poll)
    provider,           \* "maps": discover_maps_locations, "reviews": fetch_maps_reviews
    spc,                \* position in the session
    createLog,          \* outcome of every HTTP create request, in order
    task_id,            \* the provider task id create returned, or None
    attempt,            \* loop variable of the poll loop
    wait_time,          \* the poll loop's wait_time, in milliseconds
    waits,              \* the time.sleep() made before every poll, in order
    pollLog,            \* the first MaxLogged poll responses, in order
    polls,              \* HTTP poll requests issued
    last_response,      \* the response to the latest poll
    sessionResult,      \* what the poll function returned: "items" | "empty"
    \* ---- discover_maps_links: the fan-out over the countries
    mpc,                \* position of the thread that runs task_discover_locations
                        \* and, inside it, discover_maps_links
    tpc,                \* per partition: position of its search_country thread
    partResult,         \* per partition: the value of its future
    consumed,           \* partitions whose future the merge loop has taken
    all_locations,      \* the merged list
    seen_place_ids,     \* identity keys merged so far
    mergeLog,           \* every location offered to the merge, in order
    inflightAtTrip,     \* partitions still running when the loop broke
    fanOutput,          \* the list discover_maps_links returned
    failure,            \* per partition: how its search_country failed,
                        \* "none" when it did not
    \* ---- scrape_multiple_locations: batch review fetching
    bpc,                \* position of the calling thread
    batch_locations,    \* len(locations): locations passed in, each with a keyword
    sess,               \* per location: state of its provider session
    tasks_created,      \* locations whose create call returned a task id
    all_results,        \* number of non-empty frames collected
    \* ---- several worker processes on one queue
    qmsg,               \* per message: "unsent" | "visible" | "inflight" |
                        \* "deleted"
    qbody,              \* per message: its body, [task_type, decodable, object]
    deliveries,         \* per message: times it was received
    wk,                 \* per worker: position in worker.main and message held
    \* ---- main.py: background tasks of one job id and its status endpoint
    apc,                \* position of task_analyze_website for the job id
    background_tasks,   \* scraping tasks added by api_scrap_reviews under
                        \* the job id that have not run their first statement
    scrap,              \* per scraping task of the job id: its position in
                        \* task_scrap_reviews
    response,           \* what the latest request to the API server got:
                        \* "none" | "ok" | "http_500"
    jobConfig,          \* job_config/{job}.json exists
    scrapedData,        \* scrapped_data/{job}.csv exists
    answer,             \* what check_status returned last
    \* ---- the checkpoint functions called on their own
    ck_op,              \* the latest call: [name, jid, ok, exception]
    last_saved,         \* [present, list]: the list of the latest save that
                        \* reached the store, absent when nothing is stored
    ck_loaded           \* what the latest load_checkpoint call returned

inputVars  == <<caller, message, dimensions, openai_key, total_reviews,
                text_column>>
storeVars  == <<statusStore, checkpointStore, artifacts>>
runVars    == <<pc, job_id, idx, analyzed_results, processed_indices, labels,
                outcome, callLog, save_failed, saveLog, loop_done, exception,
                error_text>>
histVars   == <<runs, faults, prevProcessed, prevDue, prevOutcome, prevSaveFailed,
                lastWritten>>
workerVars == <<wpc, msgState, receiveCount, analysisResults, deleteCalls,
                killed>>
sessionVars == <<provider, spc, createLog, task_id, attempt, wait_time, waits,
                 pollLog, polls, last_response, sessionResult>>
fanVars == <<mpc, tpc, partResult, consumed, all_locations, seen_place_ids,
             mergeLog, inflightAtTrip, fanOutput, failure>>
batchVars == <<bpc, batch_locations, sess, tasks_created, all_results>>
\* The services modelled apart from the job handler, the session and the
\* discovery fan-out.
queueVars == <<qmsg, qbody, deliveries, wk>>
apiVars == <<apc, background_tasks, scrap, response, jobConfig, scrapedData, answer>>
ckVars == <<ck_op, last_saved, ck_loaded>>
serviceVars == <<batchVars, queueVars, apiVars, ckVars>>
vars == <<inputVars, storeVars, runVars, histVars, workerVars, sessionVars, fanVars,
          serviceVars>>

(***************************************************************************)
(* Values.                                                                 *)
(***************************************************************************)
\* The value stored under "result", by shape:
\*   "labelled"        json.loads gave an object with a sentiment string
\*   "no_sentiment"    an object without the sentiment key
\*   "null_sentiment"  an object whose sentiment is JSON null
\*   "non_object"      a JSON array, string or number
\*   "bad_topics"      an object with a sentiment whose 'topics' can be
\*                     iterated but holds no objects (["Delivery"], "Delivery")
\*   "scalar_topics"   an object with a sentiment whose 'topics' cannot be
\*                     iterated (5)
\*   "neutral_default" the dict of the except-branch
\*                     (Neutral / Indifferent / 0.0 / [])
NeutralDefault == "neutral_default"
ResultShapes == {"labelled", "no_sentiment", "null_sentiment", "non_object",
                 "bad_topics", "scalar_topics", NeutralDefault}

\* What one classification call can do.
Outcomes == {"ok", "partial", "null_label", "non_object", "bad_topics",
             "scalar_topics", "api_error", "unparsable"}

NoRecord == [status |-> "none", processed |-> 0, total |-> 0]
NoCheckpoint == [present |-> FALSE, data |-> <<>>]

\* message_body.get("task_type") selects one of four branches of
\* process_message (worker.py:34-101).
TaskTypes == {"scraping", "analyze_website", "analysis", "unknown"}
\* A message body: json.loads succeeds or not (decodable), and what it gives
\* is a JSON object or another JSON value such as [1] or null (object).
Messages == [task_type : TaskTypes, decodable : BOOLEAN, object : BOOLEAN]
NoMessage == [task_type |-> "none", decodable |-> FALSE, object |-> FALSE]
\* The bodies a queue message can have: text that is not JSON, a JSON value
\* that is not an object, or an object with one of the task types (a body
\* without a readable task_type counts as "unknown").
MessageBodies ==
    {b \in Messages : /\ ~b.decodable => ~b.object
                      /\ ~b.object => b.task_type = "unknown"}

Indices(results) == {results[j].index : j \in 1..Len(results)}


\* Mutation of NextUnprocessed: the loop forgets the skip-set.
NextIndexIgnoringSkip(from, skip, total) ==
    IF from < total THEN from ELSE total

\* The first index >= from that the skip-set does not hold (total when none):
\* the effect of "if idx in processed_indices: continue".
NextUnprocessed(from, skip, total) ==
    IF \E i \in from..(total - 1) : i \notin skip
    THEN CHOOSE i \in from..(total - 1) :
             i \notin skip /\ \A j \in from..(i - 1) : j \in skip
    ELSE total

\* A loop whose body is entered whether or not a row is left.
LoopEntryAlways(next, total) == "head"

\* Line 203, "for idx, row in df_sample.iterrows()": the body runs when a row
\* is left, else the loop is over and the merge follows.
LoopEntry(next, total) == IF next < total THEN "head" ELSE "merge"

\* update_analysis_status: no-op without a job id; a failed put_object is
\* logged and swallowed; the record is overwritten wholesale.
update_analysis_status(store, jid, status, processed, total, put_ok) ==
    IF jid = None \/ ~put_ok
    THEN store
    ELSE [status |-> status, processed |-> processed, total |-> total]

\* json.dumps(results), line 95: the body is a JSON array with one object
\* {"index": i, "result": r} per entry, written here as the pair <<i, r>>.
json_dumps(results) ==
    [j \in 1..Len(results) |-> <<results[j].index, results[j].result>>]

\* json.loads(body), line 71: the list of dicts the JSON array stands for.
json_loads(body) ==
    [j \in 1..Len(body) |-> [index |-> body[j][1], result |-> body[j][2]]]

\* What the try-block of load_checkpoint (lines 68-73) can do:
\*   "ok"         get_object answers: the stored body, or NoSuchKey
\*   "error"      get_object or the decoding raises another exception
\*   "no_client"  get_s3_client() (line 69) raises and leaves s3 unbound
LoadOutcomes == {"ok", "error", "no_client"}

\* load_checkpoint, lines 58-79: what it returns (data) or the exception that
\* leaves it.  [] without a job id, on NoSuchKey and on an exception the
\* generic except-branch catches.  When the client could not be made, the
\* evaluation of "except s3.exceptions.NoSuchKey" (line 74) raises
\* UnboundLocalError, which no branch catches.
load_checkpoint(store, jid, get) ==
    IF jid = None
    THEN [exception |-> None, data |-> <<>>]
    ELSE IF get = "no_client"
    THEN [exception |-> "UnboundLocalError", data |-> <<>>]
    ELSE IF ~store.present \/ get = "error"
    THEN [exception |-> None, data |-> <<>>]
    ELSE [exception |-> None, data |-> json_loads(store.data)]

\* save_checkpoint: replaces the stored list; a failed put_object is swallowed.
save_checkpoint(store, jid, results, put_ok) ==
    IF jid = None \/ ~put_ok
    THEN store
    ELSE [present |-> TRUE, data |-> json_dumps(results)]

\* Mutation of CheckpointDue: ">= 50" instead of "% 50 == 0".
CheckpointDueOncePast(jid, results) ==
    /\ jid # None
    /\ Len(results) >= CheckpointEvery

\* Mutation of CheckpointDue: an empty list counts as a multiple of 50.
CheckpointDueAtZero(jid, results) ==
    /\ jid # None
    /\ Len(results) % CheckpointEvery = 0

\* Mutation of CheckpointDue: the interval is doubled.
CheckpointDueEvery100(jid, results) ==
    /\ jid # None
    /\ Len(results) > 0
    /\ Len(results) % (2 * CheckpointEvery) = 0

\* The cadence test of line 220.
CheckpointDue(jid, results) ==
    /\ jid # None
    /\ Len(results) > 0
    /\ Len(results) % CheckpointEvery = 0

\* Mutation of ProgressDue: the last review is not reported on its own.
ProgressDueEveryFifthOnly(i, total) ==
    (i + 1) % ProgressEvery = 0

\* The cadence test of line 211.
ProgressDue(i, total) ==
    (i + 1) % ProgressEvery = 0 \/ (i + 1) = total

\* Mutation of ClassifyEntry: the except-branch stores None as the result.
ClassifyEntryNoneOnFailure(i, o) ==
    [index |-> i,
     result |-> CASE o = "ok"         -> "labelled"
                  [] o = "partial"    -> "no_sentiment"
                  [] o = "null_label" -> "null_sentiment"
                  [] o = "bad_topics" -> "bad_topics"
                  [] o = "scalar_topics" -> "scalar_topics"
                  [] OTHER            -> "non_object"]

\* Mutation of ClassifyEntry: the entry carries review_num, the 1-based
\* position, in place of idx.
ClassifyEntryReviewNum(i, o) ==
    [index |-> i + 1,
     result |-> CASE o = "ok"         -> "labelled"
                  [] o = "partial"    -> "no_sentiment"
                  [] o = "null_label" -> "null_sentiment"
                  [] o = "non_object" -> "non_object"
                  [] o = "bad_topics" -> "bad_topics"
                  [] o = "scalar_topics" -> "scalar_topics"
                  [] OTHER            -> NeutralDefault]

\* The {index, result} entry lines 281-310 append for one call.
\* "api_error": create() raises; "unparsable": json.loads raises; both are
\* caught by the except-branch.  Every other outcome is stored as parsed.
ClassifyEntry(i, o) ==
    [index |-> i,
     result |-> CASE o = "ok"         -> "labelled"
                  [] o = "partial"    -> "no_sentiment"
                  [] o = "null_label" -> "null_sentiment"
                  [] o = "non_object" -> "non_object"
                  [] o = "bad_topics" -> "bad_topics"
                  [] o = "scalar_topics" -> "scalar_topics"
                  [] OTHER            -> NeutralDefault]

\* hasattr(result, 'get'): the result is a dict.
IsObject(result) == result # "non_object"

\* Lines 336-341: a truthy 'topics' is iterated and topic.get is called on
\* each element, which needs a list of objects.
TopicsUsable(result) == result \notin {"bad_topics", "scalar_topics"}

\* result.get('sentiment', 'Neutral')
GetSentiment(result) ==
    CASE result = "labelled"       -> "Positive"
      [] result = "bad_topics"     -> "Positive"
      [] result = "scalar_topics"  -> "Positive"
      [] result = "no_sentiment"   -> "Neutral"
      [] result = "null_sentiment" -> None
      [] OTHER                     -> "Neutral"

\* The merge loop of lines 323-344 raises on a result that has no .get
\* (a JSON array, string or number) and on an object whose 'topics' cannot be
\* iterated as a list of objects.
MergeRaises(results, total) ==
    \E j \in 1..Len(results) :
        /\ results[j].index \in 0..(total - 1)
        /\ ~IsObject(results[j].result) \/ ~TopicsUsable(results[j].result)

\* The exception of the merge loop: raised at the first entry, in list order,
\* that cannot be merged.  result.get on a value that is no object and
\* topic.get on a topic that is no object raise AttributeError; the iteration
\* of a 'topics' value that is a number raises TypeError.
MergeException(results, total) ==
    LET bad == {j \in 1..Len(results) :
                   /\ results[j].index \in 0..(total - 1)
                   /\ ~IsObject(results[j].result) \/ ~TopicsUsable(results[j].result)}
        first == CHOOSE j \in bad : \A k \in bad : j <= k
    IN  IF results[first].result = "scalar_topics" THEN "TypeError"
        ELSE "AttributeError"

\* df_sample['sentiment'] after the merge: None where no entry names the row,
\* else the label of the last entry that names it.
MergedLabels(results, total) ==
    [r \in 1..total |->
        IF (r - 1) \in Indices(results)
        THEN LET last == CHOOSE j \in 1..Len(results) :
                             /\ results[j].index = r - 1
                             /\ \A k \in (j + 1)..Len(results) :
                                    results[k].index # r - 1
             IN  GetSentiment(results[last].result)
        ELSE None]

\* Outcomes the model lets the classification call of item i have.  The
\* try/except of lines 281-310 treats every call alike.  In a collection of
\* at most MaxFreeItems items every call of every run has every outcome; in a
\* longer one the first MaxOddCalls calls of every run have.
AllowedOutcomes(i, total) ==
    IF total <= MaxFreeItems \/ Len(callLog) < MaxOddCalls
    THEN Outcomes
    ELSE {"ok"}

\* A store or queue operation may fail while fewer than MaxFaults operations
\* have failed.
Failed(op_ok) == IF op_ok THEN 0 ELSE 1
Charge(n) ==
    /\ faults + n <= MaxFaults
    /\ faults' = faults + n

\* floor(k / 50) * 50
SavedUpTo(k) == (k \div CheckpointEvery) * CheckpointEvery
\* For a list of k results: the list sizes at which line 220 was last true
\* when the list had k results (at) and when it had one less (before).
Due(k) == [at |-> SavedUpTo(k),
           before |-> IF k = 0 THEN 0 ELSE SavedUpTo(k - 1)]

\* analyze_reviews is not executing: never called, left by a return or an
\* exception, or its process was killed.
Finished == {"idle", "returned", "raised", "crashed"}

(***************************************************************************)
(* analyze_reviews, one action per I/O step.                               *)
(***************************************************************************)
\* Entry of analyze_reviews(file_path, dimensions, key, job_id=jid).
BeginRun(jid) ==
    /\ pc \in Finished
    /\ runs < MaxRuns
    /\ pc' = "read"
    /\ job_id' = jid
    /\ idx' = 0
    /\ analyzed_results' = <<>>
    /\ processed_indices' = {}
    /\ labels' = <<>>
    /\ callLog' = <<>>
    /\ save_failed' = FALSE
    /\ loop_done' = FALSE
    /\ exception' = None
    /\ error_text' = None
    /\ saveLog' = <<>>
    /\ outcome' = "running"
    /\ prevOutcome' = outcome
    /\ prevSaveFailed' = save_failed
    /\ runs' = runs + 1
    /\ prevProcessed' = IF pc = "crashed" THEN prevProcessed
                        ELSE Len(analyzed_results)
    /\ prevDue' = IF pc = "crashed" THEN prevDue ELSE Due(Len(analyzed_results))
    /\ lastWritten' = IF caller = "task" THEN lastWritten ELSE NoRecord
    /\ UNCHANGED <<faults,  inputVars, storeVars>>

\* Lines 156-172: read the source (a local file or an S3 object); when that
\* raises, write status error and return {"error": "Could not read file: ..."}.
\* The put of the error record is the store operation of this step.
ReadSource ==
    /\ pc = "read"
    /\ \E read_ok \in BOOLEAN, put_ok \in BOOLEAN :
        /\ (read_ok \/ job_id = None => put_ok)
        /\ Charge(Failed(put_ok))
        /\ IF read_ok
           THEN /\ pc' = "status"
                /\ UNCHANGED <<statusStore, lastWritten, outcome, error_text>>
           ELSE /\ pc' = "returned"
                /\ outcome' = "read_error"
                /\ error_text' = "message"
                /\ statusStore' =
                     update_analysis_status(statusStore, job_id, "error", 0, 0, put_ok)
                /\ lastWritten' =
                     update_analysis_status(lastWritten, job_id, "error", 0, 0, put_ok)
    /\ UNCHANGED <<job_id, idx, analyzed_results, processed_indices, labels, callLog,
                   save_failed, saveLog, loop_done, exception>>
    /\ UNCHANGED <<runs,  prevProcessed, prevDue, prevOutcome, prevSaveFailed,
                   checkpointStore, artifacts>>
    /\ UNCHANGED <<inputVars, workerVars>>
    /\ UNCHANGED sessionVars
    /\ UNCHANGED fanVars
    /\ UNCHANGED serviceVars

\* Lines 182-183: the initial "running" record.
InitialStatus ==
    /\ pc = "status"
    /\ \E put_ok \in BOOLEAN :
        /\ (job_id = None => put_ok)
        /\ Charge(Failed(put_ok))
        /\ statusStore' = update_analysis_status(statusStore, job_id, "running",
                                                 0, total_reviews, put_ok)
        /\ lastWritten' = update_analysis_status(lastWritten, job_id, "running",
                                                 0, total_reviews, put_ok)
    /\ pc' = "load"
    /\ UNCHANGED <<job_id, idx, analyzed_results, processed_indices, labels,
                   outcome, callLog, save_failed, saveLog, loop_done, exception,
                   error_text>>
    /\ UNCHANGED <<runs,  prevProcessed, prevDue, prevOutcome, prevSaveFailed,
                   checkpointStore, artifacts>>
    /\ UNCHANGED <<inputVars, workerVars>>
    /\ UNCHANGED sessionVars
    /\ UNCHANGED fanVars
    /\ UNCHANGED serviceVars

\* Lines 185-201: load the checkpoint (line 187, outside any try: an
\* exception of load_checkpoint leaves analyze_reviews), build the skip-set,
\* format the dimensions (a TypeError when the message carried none).
LoadCheckpoint ==
    /\ pc = "load"
    /\ \E get \in LoadOutcomes :
        /\ (job_id = None => get = "ok")
        /\ Charge(Failed(get = "ok"))
        /\ LET call   == load_checkpoint(checkpointStore, job_id, get)
               loaded == call.data
               first  == NextUnprocessed(0, Indices(loaded), total_reviews)
           IN  /\ analyzed_results' = loaded
               /\ processed_indices' = Indices(loaded)
               /\ IF call.exception # None \/ dimensions = None
                  THEN /\ pc' = "raised"
                       /\ outcome' = "raised"
                       /\ exception' = IF call.exception # None
                                       THEN call.exception ELSE "TypeError"
                       /\ idx' = idx
                       /\ loop_done' = loop_done
                  ELSE /\ pc' = LoopEntry(first, total_reviews)
                       /\ outcome' = outcome
                       /\ exception' = exception
                       /\ idx' = first
                       /\ loop_done' = (LoopEntry(first, total_reviews) = "merge")
    /\ prevProcessed' = 0
    /\ UNCHANGED <<job_id, labels, callLog, save_failed, saveLog, error_text>>
    /\ UNCHANGED <<runs,  prevDue, prevOutcome, prevSaveFailed, lastWritten, storeVars>>
    /\ UNCHANGED <<inputVars, workerVars>>
    /\ UNCHANGED sessionVars
    /\ UNCHANGED fanVars
    /\ UNCHANGED serviceVars

\* Lines 208-217 and the test of line 220: the progress record (every 5th
\* review and on the last one) is put; a checkpoint save follows when the
\* in-memory list holds a positive multiple of 50 results.
LoopHead ==
    /\ pc = "head"
    /\ \E status_ok \in BOOLEAN :
        /\ (job_id = None \/ ~ProgressDue(idx, total_reviews) => status_ok)
        /\ Charge(Failed(status_ok))
        /\ statusStore' =
             IF ProgressDue(idx, total_reviews)
             THEN update_analysis_status(statusStore, job_id, "running",
                                         idx + 1, total_reviews, status_ok)
             ELSE statusStore
        /\ lastWritten' =
             IF ProgressDue(idx, total_reviews)
             THEN update_analysis_status(lastWritten, job_id, "running",
                                         idx + 1, total_reviews, status_ok)
             ELSE lastWritten
    /\ pc' = IF CheckpointDue(job_id, analyzed_results) THEN "save" ELSE "classify"
    /\ UNCHANGED <<job_id, idx, analyzed_results, processed_indices, labels,
                   outcome, callLog, save_failed, saveLog, loop_done, exception,
                   error_text>>
    /\ UNCHANGED <<runs,  prevProcessed, prevDue, prevOutcome, prevSaveFailed,
                   checkpointStore, artifacts>>
    /\ UNCHANGED <<inputVars, workerVars>>
    /\ UNCHANGED sessionVars
    /\ UNCHANGED fanVars
    /\ UNCHANGED serviceVars

\* Mutation of LoopCheckpoint: a failed checkpoint save leaves analyze_reviews.
LoopCheckpointSaveFailureRaises ==
    /\ pc = "save"
    /\ \E save_ok \in BOOLEAN :
        /\ Charge(Failed(save_ok))
        /\ checkpointStore' =
             save_checkpoint(checkpointStore, job_id, analyzed_results, save_ok)
        /\ save_failed' = (save_failed \/ ~save_ok)
        /\ saveLog' = Append(saveLog, [idx |-> idx, results |-> Len(analyzed_results),
                                       ok |-> save_ok])
        /\ pc' = IF save_ok THEN "classify" ELSE "raised"
        /\ outcome' = IF save_ok THEN outcome ELSE "raised"
        /\ exception' = IF save_ok THEN exception ELSE "ClientError"
    /\ UNCHANGED <<job_id, idx, analyzed_results, processed_indices, labels,
                   callLog, loop_done, error_text>>
    /\ UNCHANGED <<runs,  prevProcessed, prevDue, prevOutcome, prevSaveFailed, lastWritten,
                   statusStore, artifacts>>
    /\ UNCHANGED <<inputVars, workerVars>>
    /\ UNCHANGED sessionVars
    /\ UNCHANGED fanVars
    /\ UNCHANGED serviceVars

\* Line 221: save_checkpoint puts the whole in-memory list; a failed put is
\* logged and the iteration goes on.
LoopCheckpoint ==
    /\ pc = "save"
    /\ \E save_ok \in BOOLEAN :
        /\ Charge(Failed(save_ok))
        /\ checkpointStore' =
             save_checkpoint(checkpointStore, job_id, analyzed_results, save_ok)
        /\ save_failed' = (save_failed \/ ~save_ok)
        /\ saveLog' = Append(saveLog, [idx |-> idx, results |-> Len(analyzed_results),
                                       ok |-> save_ok])
    /\ pc' = "classify"
    /\ UNCHANGED <<job_id, idx, analyzed_results, processed_indices, labels,
                   outcome, callLog, loop_done, exception, error_text>>
    /\ UNCHANGED <<runs,  prevProcessed, prevDue, prevOutcome, prevSaveFailed, lastWritten,
                   statusStore, artifacts>>
    /\ UNCHANGED <<inputVars, workerVars>>
    /\ UNCHANGED sessionVars
    /\ UNCHANGED fanVars
    /\ UNCHANGED serviceVars

\* Lines 223-310.  row['text'] (line 223) is read outside the try: without
\* the column a KeyError leaves analyze_reviews and nothing is appended.
\* Otherwise one classification call is made and its entry appended, and the
\* for-loop moves to the next index that is not in the skip-set.
Classify ==
    /\ pc = "classify"
    /\ IF ~text_column
       THEN /\ pc' = "raised"
            /\ outcome' = "raised"
            /\ exception' = "KeyError"
            /\ UNCHANGED <<idx, analyzed_results, callLog, loop_done>>
       ELSE /\ \E o \in AllowedOutcomes(idx, total_reviews) :
                /\ analyzed_results' = Append(analyzed_results, ClassifyEntry(idx, o))
                /\ callLog' = Append(callLog, [index |-> idx, outcome |-> o])
            /\ LET next == NextUnprocessed(idx + 1, processed_indices, total_reviews)
               IN  /\ idx' = next
                   /\ pc' = LoopEntry(next, total_reviews)
                   /\ loop_done' = (LoopEntry(next, total_reviews) = "merge")
            /\ UNCHANGED <<outcome, exception>>
    /\ UNCHANGED <<job_id, processed_indices, labels, save_failed, saveLog,
                   error_text>>
    /\ UNCHANGED <<runs, faults, prevProcessed, prevDue, prevOutcome, prevSaveFailed, lastWritten>>
    /\ UNCHANGED <<storeVars, inputVars, workerVars>>
    /\ UNCHANGED sessionVars
    /\ UNCHANGED fanVars
    /\ UNCHANGED serviceVars

\* Lines 313-344: merge the results into the frame by index.  Not inside any
\* try block: an AttributeError or TypeError leaves analyze_reviews.
Merge ==
    /\ pc = "merge"
    /\ IF MergeRaises(analyzed_results, total_reviews)
       THEN /\ pc' = "raised"
            /\ outcome' = "raised"
            /\ exception' = MergeException(analyzed_results, total_reviews)
            /\ labels' = labels
       ELSE /\ pc' = "upload"
            /\ outcome' = outcome
            /\ exception' = exception
            /\ labels' = MergedLabels(analyzed_results, total_reviews)
    /\ UNCHANGED <<job_id, idx, analyzed_results, processed_indices, callLog,
                   save_failed, saveLog, loop_done, error_text>>
    /\ UNCHANGED <<histVars, storeVars, inputVars, workerVars>>
    /\ UNCHANGED sessionVars
    /\ UNCHANGED fanVars
    /\ UNCHANGED serviceVars

\* What lines 347-379 can do:
\*   "write_error"     os.makedirs or to_csv (353-355) raises, outside the try
\*   "ok"              the artifact is uploaded and its URL signed
\*   "no_credentials"  upload_file raises NoCredentialsError
\*   "error"           upload_file raises another exception
\*   "presign_error"   upload_file has stored the artifact and
\*                     generate_presigned_url (line 375) raises
Uploads == {"write_error", "ok", "no_credentials", "error", "presign_error"}

\* Mutation of Upload: the error exits remove the checkpoint of the job.
UploadErrorClearsCheckpoint ==
    /\ pc = "upload"
    /\ \E up \in Uploads, empty \in BOOLEAN :
        /\ (up \notin {"error", "presign_error"} => ~empty)
        /\ Charge(Failed(up \in {"ok", "write_error"}))
        /\ artifacts' = IF up \in {"ok", "presign_error"} THEN artifacts + 1
                        ELSE artifacts
        /\ checkpointStore' = IF up \in {"ok", "write_error"} THEN checkpointStore
                              ELSE NoCheckpoint
        /\ pc' = CASE up = "write_error"    -> "raised"
                   [] up = "ok"             -> "complete"
                   [] up = "no_credentials" -> "returned"
                   [] OTHER                 -> "finally"
        /\ outcome' = CASE up = "write_error"    -> "raised"
                        [] up = "no_credentials" -> "no_credentials"
                        [] OTHER                 -> outcome
        /\ exception' = IF up = "write_error" THEN "OSError" ELSE exception
        /\ error_text' = CASE up \in {"ok", "write_error"} -> error_text
                           [] empty                        -> ""
                           [] OTHER                        -> "message"
    /\ UNCHANGED <<job_id, idx, analyzed_results, processed_indices, labels, callLog,
                   save_failed, saveLog, loop_done>>
    /\ UNCHANGED <<runs,  prevProcessed, prevDue, prevOutcome, prevSaveFailed, lastWritten,
                   statusStore>>
    /\ UNCHANGED <<inputVars, workerVars>>
    /\ UNCHANGED sessionVars
    /\ UNCHANGED fanVars
    /\ UNCHANGED serviceVars

\* Lines 347-379 and the except-branches of 472-490: write the artifact to the
\* local disk and upload it.  A failure of the local write is outside the try
\* and leaves analyze_reviews.  NoCredentialsError returns an error dict with a
\* fixed text; any other exception e is kept in `error` and str(e), which may
\* be empty, becomes the 'error' value of the dict to return; the
\* finally-block runs before the return.
Upload ==
    /\ pc = "upload"
    /\ \E up \in Uploads, empty \in BOOLEAN :
        /\ (up \notin {"error", "presign_error"} => ~empty)
        /\ Charge(Failed(up \in {"ok", "write_error"}))
        /\ artifacts' = IF up \in {"ok", "presign_error"} THEN artifacts + 1
                        ELSE artifacts
        /\ pc' = CASE up = "write_error"    -> "raised"
                   [] up = "ok"             -> "complete"
                   [] up = "no_credentials" -> "returned"
                   [] OTHER                 -> "finally"
        /\ outcome' = CASE up = "write_error"    -> "raised"
                        [] up = "no_credentials" -> "no_credentials"
                        [] OTHER                 -> outcome
        /\ exception' = IF up = "write_error" THEN "OSError" ELSE exception
        /\ error_text' = CASE up \in {"ok", "write_error"} -> error_text
                           [] empty                        -> ""
                           [] OTHER                        -> "message"
    /\ UNCHANGED <<job_id, idx, analyzed_results, processed_indices, labels, callLog,
                   save_failed, saveLog, loop_done>>
    /\ UNCHANGED <<runs,  prevProcessed, prevDue, prevOutcome, prevSaveFailed, lastWritten,
                   statusStore, checkpointStore>>
    /\ UNCHANGED <<inputVars, workerVars>>
    /\ UNCHANGED sessionVars
    /\ UNCHANGED fanVars
    /\ UNCHANGED serviceVars

\* Lines 492-494, the finally-block after an exception other than
\* NoCredentialsError: with a job id the status error is put (the exception
\* object is truthy whatever its text); then the error dict is returned.
Finally ==
    /\ pc = "finally"
    /\ \E put_ok \in BOOLEAN :
        /\ (job_id = None => put_ok)
        /\ Charge(Failed(put_ok))
        /\ statusStore' = update_analysis_status(statusStore, job_id, "error",
                                                 0, 0, put_ok)
        /\ lastWritten' = update_analysis_status(lastWritten, job_id, "error",
                                                 0, 0, put_ok)
    /\ pc' = "returned"
    /\ outcome' = "upload_error"
    /\ UNCHANGED <<job_id, idx, analyzed_results, processed_indices, labels, callLog,
                   save_failed, saveLog, loop_done, exception, error_text>>
    /\ UNCHANGED <<runs,  prevProcessed, prevDue, prevOutcome, prevSaveFailed,
                   checkpointStore, artifacts>>
    /\ UNCHANGED <<inputVars, workerVars>>
    /\ UNCHANGED sessionVars
    /\ UNCHANGED fanVars
    /\ UNCHANGED serviceVars

\* Lines 438-450: the final "completed" record.
Complete ==
    /\ pc = "complete"
    /\ \E put_ok \in BOOLEAN :
        /\ (job_id = None => put_ok)
        /\ Charge(Failed(put_ok))
        /\ statusStore' = update_analysis_status(statusStore, job_id, "completed",
                                    total_reviews, total_reviews, put_ok)
        /\ lastWritten' = update_analysis_status(lastWritten, job_id, "completed",
                                    total_reviews, total_reviews, put_ok)
    /\ pc' = "cleanup"
    /\ UNCHANGED <<job_id, idx, analyzed_results, processed_indices, labels,
                   outcome, callLog, save_failed, saveLog, loop_done, exception,
                   error_text>>
    /\ UNCHANGED <<runs,  prevProcessed, prevDue, prevOutcome, prevSaveFailed,
                   checkpointStore, artifacts>>
    /\ UNCHANGED <<inputVars, workerVars>>
    /\ UNCHANGED sessionVars
    /\ UNCHANGED fanVars
    /\ UNCHANGED serviceVars

\* delete_object on the checkpoint key; a failure is logged and swallowed.
delete_checkpoint(store, jid, delete_ok) ==
    IF jid = None \/ ~delete_ok THEN store ELSE NoCheckpoint

\* Lines 452-457: remove the checkpoint of the job.
Cleanup ==
    /\ pc = "cleanup"
    /\ \E delete_ok \in BOOLEAN :
        /\ (job_id = None => delete_ok)
        /\ Charge(Failed(delete_ok))
        /\ checkpointStore' = delete_checkpoint(checkpointStore, job_id, delete_ok)
    /\ pc' = "return"
    /\ UNCHANGED <<job_id, idx, analyzed_results, processed_indices, labels, callLog,
                   outcome, save_failed, saveLog, loop_done, exception, error_text>>
    /\ UNCHANGED <<runs,  prevProcessed, prevDue, prevOutcome, prevSaveFailed, lastWritten,
                   statusStore, artifacts>>
    /\ UNCHANGED <<inputVars, workerVars>>
    /\ UNCHANGED sessionVars
    /\ UNCHANGED fanVars
    /\ UNCHANGED serviceVars

\* Lines 460-470: return the result dict.
ReturnResult ==
    /\ pc = "return"
    /\ pc' = "returned"
    /\ outcome' = "ok"
    /\ UNCHANGED <<job_id, idx, analyzed_results, processed_indices, labels, callLog,
                   save_failed, saveLog, loop_done, exception, error_text>>
    /\ UNCHANGED <<histVars, storeVars, inputVars, workerVars>>
    /\ UNCHANGED sessionVars
    /\ UNCHANGED fanVars
    /\ UNCHANGED serviceVars


(***************************************************************************)
(* Callers of analyze_reviews.                                             *)
(***************************************************************************)
\* A direct call analyze_reviews(..., job_id=...): verify_checkpoint.py calls
\* it twice with the same id.
StartDirect ==
    /\ caller = "direct"
    /\ BeginRun(JobId)
    /\ UNCHANGED workerVars
    /\ UNCHANGED sessionVars
    /\ UNCHANGED fanVars
    /\ UNCHANGED serviceVars

\* The process is killed.  Inside analyze_reviews, at any statement up to
\* its return: memory is lost (the next run starts from fresh locals), the
\* stores keep what was written.  The worker process can also be killed
\* outside analyze_reviews, between the receipt of a message and the return of
\* delete_message: it starts again in its receive loop and the message stays
\* as the queue holds it.
Crash ==
    /\ \/ pc \notin Finished
       \/ caller = "worker" /\ wpc \in {"dispatch", "process", "delete"}
    /\ IF pc \notin Finished
       THEN /\ pc' = "crashed"
            /\ outcome' = "crashed"
            /\ prevProcessed' = Len(analyzed_results)
            /\ prevDue' = Due(Len(analyzed_results))
            /\ idx' = 0
            /\ analyzed_results' = <<>>
            /\ processed_indices' = {}
            /\ labels' = <<>>
            /\ callLog' = <<>>
            /\ exception' = None
            /\ error_text' = None
       ELSE UNCHANGED <<pc, outcome, prevProcessed, prevDue, idx, analyzed_results,
                        processed_indices, labels, callLog, exception, error_text>>
    /\ wpc' = IF caller = "worker" THEN "receive" ELSE wpc
    /\ killed' = (killed \/ caller = "worker")
    /\ UNCHANGED <<job_id, save_failed, saveLog, loop_done, msgState, receiveCount,
                   analysisResults, deleteCalls>>
    /\ UNCHANGED <<runs, faults,  prevOutcome, prevSaveFailed, lastWritten, storeVars,
                   inputVars>>
    /\ UNCHANGED sessionVars
    /\ UNCHANGED fanVars
    /\ UNCHANGED serviceVars

(***************************************************************************)
(* worker.main and QueueService.                                           *)
(***************************************************************************)
\* worker.py 113-117, queue_service.py 32-47: receive at most one message; it
\* becomes invisible to other receivers until its visibility timeout.
Receive ==
    /\ wpc = "receive"
    /\ msgState = "visible"
    /\ receiveCount < MaxRuns
    /\ msgState' = "inflight"
    /\ receiveCount' = receiveCount + 1
    /\ wpc' = "dispatch"
    /\ killed' = FALSE
    /\ UNCHANGED <<analysisResults, deleteCalls>>
    /\ UNCHANGED <<runVars, histVars, storeVars, inputVars>>
    /\ UNCHANGED sessionVars
    /\ UNCHANGED fanVars
    /\ UNCHANGED serviceVars

\* Mutation of DecodeError: the undecodable message is deleted.
DecodeErrorThenDelete ==
    /\ wpc = "dispatch"
    /\ ~message.decodable
    /\ wpc' = "delete"
    /\ UNCHANGED <<msgState, receiveCount, analysisResults, deleteCalls, killed>>
    /\ UNCHANGED <<runVars, histVars, storeVars, inputVars>>
    /\ UNCHANGED sessionVars
    /\ UNCHANGED fanVars
    /\ UNCHANGED serviceVars

\* worker.py 121 and 130-133: json.loads of the body fails; logged, no delete.
DecodeError ==
    /\ wpc = "dispatch"
    /\ ~message.decodable
    /\ wpc' = "receive"
    /\ UNCHANGED <<msgState, receiveCount, analysisResults, deleteCalls, killed>>
    /\ UNCHANGED <<runVars, histVars, storeVars, inputVars>>
    /\ UNCHANGED sessionVars
    /\ UNCHANGED fanVars
    /\ UNCHANGED serviceVars

\* worker.py 84-93: the analysis branch calls
\* analyze_reviews(file_path, dimensions, OPENAI_API_KEY): no job id is passed.
DispatchAnalysis ==
    /\ wpc = "dispatch"
    /\ message.decodable /\ message.object
    /\ message.task_type = "analysis"
    /\ openai_key
    /\ BeginRun(None)
    /\ wpc' = "process"
    /\ UNCHANGED <<msgState, receiveCount, analysisResults, deleteCalls, killed>>
    /\ UNCHANGED sessionVars
    /\ UNCHANGED fanVars
    /\ UNCHANGED serviceVars

\* worker.py 89-91 and 100-101: a missing API key or an unknown task type is
\* logged and process_message returns.
DispatchReturn ==
    /\ wpc = "dispatch"
    /\ message.decodable /\ message.object
    /\ \/ message.task_type = "unknown"
       \/ message.task_type = "analysis" /\ ~openai_key
    /\ wpc' = "delete"
    /\ UNCHANGED <<msgState, receiveCount, analysisResults, deleteCalls, killed>>
    /\ UNCHANGED <<runVars, histVars, storeVars, inputVars>>
    /\ UNCHANGED sessionVars
    /\ UNCHANGED fanVars
    /\ UNCHANGED serviceVars

\* worker.py 34 and 134-136: the body is valid JSON but not an object;
\* message_body.get raises AttributeError, which the generic except-branch
\* logs: the message is not deleted.
DispatchNotObject ==
    /\ wpc = "dispatch"
    /\ message.decodable /\ ~message.object
    /\ wpc' = "receive"
    /\ UNCHANGED <<msgState, receiveCount, analysisResults, deleteCalls, killed>>
    /\ UNCHANGED <<runVars, histVars, storeVars, inputVars>>
    /\ UNCHANGED sessionVars
    /\ UNCHANGED fanVars
    /\ UNCHANGED serviceVars

\* worker.py 36-46, the scraping branch: run_scraper_service returns after
\* uploading scrapped_data/{job}.csv, or returns without data, and
\* process_message returns; or it raises (brands_list missing, result
\* without .get), which the generic except-branch logs without a delete.
DispatchScraping ==
    /\ wpc = "dispatch"
    /\ message.decodable /\ message.object
    /\ message.task_type = "scraping"
    /\ \E result \in {"data", "no_data", "raised"} :
          /\ scrapedData' = (scrapedData \/ result = "data")
          /\ wpc' = IF result = "raised" THEN "receive" ELSE "delete"
    /\ UNCHANGED <<msgState, receiveCount, analysisResults, deleteCalls, killed>>
    /\ UNCHANGED <<runVars, histVars, storeVars, inputVars>>
    /\ UNCHANGED sessionVars
    /\ UNCHANGED fanVars
    /\ UNCHANGED <<batchVars, queueVars, ckVars, apc, background_tasks, scrap, response,
                   jobConfig, answer>>

\* worker.py 48-82, the analyze_website branch: without a Gemini key it
\* returns at once; otherwise the analysis and the put of
\* analysis_results/{job}.json run inside a try whose except-branch swallows
\* every failure.  process_message returns in all cases.
DispatchWebsite ==
    /\ wpc = "dispatch"
    /\ message.decodable /\ message.object
    /\ message.task_type = "analyze_website"
    /\ \E gemini_key \in BOOLEAN, saved \in BOOLEAN :
          /\ (~gemini_key => ~saved)
          /\ analysisResults' = (analysisResults \/ saved)
    /\ wpc' = "delete"
    /\ UNCHANGED <<msgState, receiveCount, deleteCalls, killed>>
    /\ UNCHANGED <<runVars, histVars, storeVars, inputVars>>
    /\ UNCHANGED sessionVars
    /\ UNCHANGED fanVars
    /\ UNCHANGED serviceVars

\* Mutation of HandlerReturned: an error dict sends the worker back to
\* receiving without the delete.
HandlerReturnedErrorNotDeleted ==
    /\ wpc = "process"
    /\ pc = "returned"
    /\ wpc' = IF outcome = "ok" THEN "delete" ELSE "receive"
    /\ UNCHANGED <<msgState, receiveCount, analysisResults, deleteCalls, killed>>
    /\ UNCHANGED <<runVars, histVars, storeVars, inputVars>>
    /\ UNCHANGED sessionVars
    /\ UNCHANGED fanVars
    /\ UNCHANGED serviceVars

\* worker.py 93-98: analyze_reviews returned (a result or an error dict); both
\* are only logged and process_message returns.
HandlerReturned ==
    /\ wpc = "process"
    /\ pc = "returned"
    /\ wpc' = "delete"
    /\ UNCHANGED <<msgState, receiveCount, analysisResults, deleteCalls, killed>>
    /\ UNCHANGED <<runVars, histVars, storeVars, inputVars>>
    /\ UNCHANGED sessionVars
    /\ UNCHANGED fanVars
    /\ UNCHANGED serviceVars

\* Mutation of HandlerRaised: the delete follows the except-branch too.
HandlerRaisedThenDelete ==
    /\ wpc = "process"
    /\ pc = "raised"
    /\ wpc' = "delete"
    /\ UNCHANGED <<msgState, receiveCount, analysisResults, deleteCalls, killed>>
    /\ UNCHANGED <<runVars, histVars, storeVars, inputVars>>
    /\ UNCHANGED sessionVars
    /\ UNCHANGED fanVars
    /\ UNCHANGED serviceVars

\* worker.py 134-136: process_message raised; logged, the message is not deleted.
HandlerRaised ==
    /\ wpc = "process"
    /\ pc = "raised"
    /\ wpc' = "receive"
    /\ UNCHANGED <<msgState, receiveCount, analysisResults, deleteCalls, killed>>
    /\ UNCHANGED <<runVars, histVars, storeVars, inputVars>>
    /\ UNCHANGED sessionVars
    /\ UNCHANGED fanVars
    /\ UNCHANGED serviceVars

\* QueueService.delete_message: a failed delete is logged and swallowed.
delete_message(state, delete_ok) ==
    IF delete_ok THEN "deleted" ELSE state

\* worker.py 128: delete the message after process_message returned.
DeleteMessage ==
    /\ wpc = "delete"
    /\ \E delete_ok \in BOOLEAN :
        /\ Charge(Failed(delete_ok))
        /\ msgState' = delete_message(msgState, delete_ok)
    /\ deleteCalls' = deleteCalls \cup {receiveCount}
    /\ wpc' = "receive"
    /\ UNCHANGED <<receiveCount, analysisResults, killed>>
    /\ UNCHANGED <<runVars, runs,  prevProcessed, prevDue, prevOutcome, prevSaveFailed, lastWritten, storeVars, inputVars>>
    /\ UNCHANGED sessionVars
    /\ UNCHANGED fanVars
    /\ UNCHANGED serviceVars

\* The queue: an undeleted in-flight message becomes visible again when its
\* visibility window ends, whatever the worker is doing (receive_message is
\* called without VisibilityTimeout and the window is never extended).
VisibilityTimeout ==
    /\ msgState = "inflight"
    /\ msgState' = "visible"
    /\ UNCHANGED <<wpc, receiveCount, analysisResults, deleteCalls, killed>>
    /\ UNCHANGED <<runVars, histVars, storeVars, inputVars>>
    /\ UNCHANGED sessionVars
    /\ UNCHANGED fanVars
    /\ UNCHANGED serviceVars

(***************************************************************************)
(* The external async task client: _create_maps_search_task and            *)
(* _poll_for_maps_results (discover_maps_locations.py), _create_review_task*)
(* and _poll_for_results (fetch_maps_reviews.py).  One session.            *)
(***************************************************************************)
jobVars == <<inputVars, storeVars, runVars, histVars, workerVars>>
\* A status record written by update_job_status has no counters.
NoCounter == -1
jobVarsButStatus == <<inputVars, runVars, histVars, workerVars, checkpointStore, artifacts>>

\* update_job_status (main.py:89-110): the record is overwritten wholesale;
\* a failed put_object is logged and swallowed.
update_job_status(store, status, put_ok) ==
    IF put_ok
    THEN [status |-> status, processed |-> NoCounter, total |-> NoCounter]
    ELSE store

MaxAttempts(prov) ==
    IF prov = "maps" THEN DEFAULT_POLL_ATTEMPTS ELSE ReviewsPollAttempts
InitialWait(prov) ==
    IF prov = "maps" THEN MapsInitialWait ELSE ReviewsInitialWait
WaitCeiling(prov) ==
    IF prov = "maps" THEN MapsWaitCeiling ELSE ReviewsWaitCeiling
\* Only _create_maps_search_task is wrapped by _retry_on_failure.
MaxRetries(prov) ==
    IF prov = "maps" THEN MaxCreateRetries ELSE 0

\* What one HTTP create request can do:
\*   "created"          status 20000 and task status 20100, with an id
\*   "rejected"         any other status in the answer
\*   "http_error"       raise_for_status() raises
\*   "transport_error"  requests.post raises (connection error, timeout)
CreateOutcomes == {"created", "rejected", "http_error", "transport_error"}

\* The body of the create function: its own "except Exception" turns every
\* error into a None return, so nothing is raised to the caller (or to the
\* retry wrapper).
create_task(o) ==
    [raised |-> FALSE,
     task_id |-> IF o = "created" THEN "task-1" ELSE None]

\* _retry_on_failure.wrapper: after `calls` calls, call again when the last one
\* raised a RequestException and attempt (= calls - 1) < max_retries.
RetryDue(r, calls, prov) ==
    r.raised /\ calls - 1 < MaxRetries(prov)

\* What one poll request can give:
\*   "success_items"  task status 20000 with items
\*   "success_empty"  task status 20000 with no result or no items
\*   "processing"     task status 40601 / 40602
\*   "no_match"       task status 40102
\*   "unknown"        any other task status
\*   "no_tasks"       an answer without tasks
\*   "exception"      the request or the decoding raises
Responses == {"success_items", "success_empty", "processing", "no_match",
              "unknown", "no_tasks", "exception"}
TerminalResponses == {"success_items", "success_empty", "no_match"}

\* Mutation of Grow: the ceiling is not applied.
GrowUncapped(w, ceiling) ==
    (w * 3) \div 2

\* min(wait_time * 1.5, ceiling), in milliseconds.
Grow(w, ceiling) ==
    IF (w * 3) \div 2 < ceiling THEN (w * 3) \div 2 ELSE ceiling

\* Mutation of PollOutcome: a request error ends the session at once.
PollOutcomeBreakOnError(resp, w, ceiling) ==
    CASE resp = "success_items" -> [returns |-> TRUE,  result |-> "items", wait |-> w]
      [] resp = "success_empty" -> [returns |-> TRUE,  result |-> "empty", wait |-> w]
      [] resp = "no_match"      -> [returns |-> TRUE,  result |-> "empty", wait |-> w]
      [] resp = "exception"     -> [returns |-> TRUE,  result |-> "empty", wait |-> w]
      [] resp \in {"processing", "unknown"} ->
             [returns |-> FALSE, result |-> "pending", wait |-> Grow(w, ceiling)]
      [] OTHER                  -> [returns |-> FALSE, result |-> "pending", wait |-> w]

\* Mutation of PollOutcome: the no-match status is handled as an unknown one.
PollOutcomeNoMatchContinues(resp, w, ceiling) ==
    CASE resp = "success_items" -> [returns |-> TRUE,  result |-> "items", wait |-> w]
      [] resp = "success_empty" -> [returns |-> TRUE,  result |-> "empty", wait |-> w]
      [] resp \in {"processing", "unknown", "no_match"} ->
             [returns |-> FALSE, result |-> "pending", wait |-> Grow(w, ceiling)]
      [] OTHER                  -> [returns |-> FALSE, result |-> "pending", wait |-> w]

\* Mutation of PollOutcome: an unknown status leaves the wait as it is.
PollOutcomeUnknownKeepsWait(resp, w, ceiling) ==
    CASE resp = "success_items" -> [returns |-> TRUE,  result |-> "items", wait |-> w]
      [] resp = "success_empty" -> [returns |-> TRUE,  result |-> "empty", wait |-> w]
      [] resp = "no_match"      -> [returns |-> TRUE,  result |-> "empty", wait |-> w]
      [] resp = "processing"    -> [returns |-> FALSE, result |-> "pending",
                                    wait |-> Grow(w, ceiling)]
      [] OTHER                  -> [returns |-> FALSE, result |-> "pending", wait |-> w]

\* The body of one poll loop iteration after the sleep: whether the function
\* returns, what it returns, and the wait_time it goes on with.
PollOutcome(resp, w, ceiling) ==
    CASE resp = "success_items" -> [returns |-> TRUE,  result |-> "items", wait |-> w]
      [] resp = "success_empty" -> [returns |-> TRUE,  result |-> "empty", wait |-> w]
      [] resp = "no_match"      -> [returns |-> TRUE,  result |-> "empty", wait |-> w]
      [] resp = "processing"    -> [returns |-> FALSE, result |-> "pending",
                                    wait |-> Grow(w, ceiling)]
      [] resp = "unknown"       -> [returns |-> FALSE, result |-> "pending",
                                    wait |-> Grow(w, ceiling)]
      [] OTHER                  -> [returns |-> FALSE, result |-> "pending", wait |-> w]

\* The create call of the session (with its retry wrapper, where there is one)
\* and, when it gave a task id, the entry of the poll function.
CreateTask ==
    /\ spc = "create"
    /\ \E o \in CreateOutcomes :
        LET r == create_task(o)
            log == Append(createLog, o)
        IN  /\ createLog' = log
            /\ IF RetryDue(r, Len(log), provider)
               THEN /\ spc' = "create"
                    /\ UNCHANGED <<task_id, wait_time>>
               ELSE IF r.raised \/ r.task_id = None
               THEN /\ spc' = "failed"
                    /\ UNCHANGED <<task_id, wait_time>>
               ELSE /\ spc' = "sleep"
                    /\ task_id' = r.task_id
                    /\ wait_time' = InitialWait(provider)
    /\ UNCHANGED <<provider, attempt, waits, pollLog, polls, last_response,
                   sessionResult>>
    /\ UNCHANGED jobVars
    /\ UNCHANGED fanVars
    /\ UNCHANGED serviceVars

\* time.sleep(wait_time) at the head of a poll loop iteration.
Sleep ==
    /\ spc = "sleep"
    /\ waits' = Append(waits, wait_time)
    /\ spc' = "poll"
    /\ UNCHANGED <<provider, createLog, task_id, attempt, wait_time, pollLog, polls,
                   last_response, sessionResult>>
    /\ UNCHANGED jobVars
    /\ UNCHANGED fanVars
    /\ UNCHANGED serviceVars

\* One poll request and the handling of its answer.
Poll ==
    /\ spc = "poll"
    /\ \E resp \in Responses :
        LET o == PollOutcome(resp, wait_time, WaitCeiling(provider))
        IN  /\ polls' = polls + 1
            /\ last_response' = resp
            /\ pollLog' = IF Len(pollLog) < MaxLogged THEN Append(pollLog, resp)
                          ELSE pollLog
            /\ IF o.returns
               THEN /\ spc' = "returned"
                    /\ sessionResult' = o.result
                    /\ UNCHANGED <<attempt, wait_time>>
               ELSE /\ spc' = IF attempt + 1 < MaxAttempts(provider)
                              THEN "sleep" ELSE "timeout"
                    /\ attempt' = attempt + 1
                    /\ wait_time' = o.wait
                    /\ UNCHANGED sessionResult
    /\ UNCHANGED <<provider, createLog, task_id, waits>>
    /\ UNCHANGED jobVars
    /\ UNCHANGED fanVars
    /\ UNCHANGED serviceVars

\* The loop ran out of attempts: a warning is logged and [] is returned.
Timeout ==
    /\ spc = "timeout"
    /\ spc' = "returned"
    /\ sessionResult' = "empty"
    /\ UNCHANGED <<provider, createLog, task_id, attempt, wait_time, waits, pollLog,
                   polls, last_response>>
    /\ UNCHANGED jobVars
    /\ UNCHANGED fanVars
    /\ UNCHANGED serviceVars

(***************************************************************************)
(* discover_maps_links (discover_maps_locations.py:254-358): one           *)
(* search_country thread per country, all submitted at once, and a merge   *)
(* loop over the futures in completion order.                              *)
(***************************************************************************)
\* discover_maps_locations.py:40-48
PRIORITY_COUNTRIES ==
    <<"United Arab Emirates", "Saudi Arabia", "Egypt", "Kuwait", "Qatar",
      "Bahrain", "Oman">>
\* ordered_countries (lines 321-325), cut to the modelled partitions.
Partitions == 1..MaxPartitions
Country(p) == PRIORITY_COUNTRIES[p]

\* reviews_count of a location whose item carries no rating (line 247: None).
NoCount == -1

\* Locations as _parse_maps_items returns them (lines 241-248), before the
\* country is added.  Place 1 and place 2 are found from every country with
\* attributes of that country's listing; places 100*p+i only from country p.
BranchNames == <<"Acme UAE", "Acme KSA", "Acme Egypt", "Acme Kuwait", "Acme Qatar",
                 "Acme Bahrain", "Acme Oman">>
Shared(p) == [place_id |-> 1, name |-> BranchNames[p], reviews_count |-> p]
SharedAgain(p) == [place_id |-> 1, name |-> "Acme (duplicate listing)", reviews_count |-> 0]
Unrated(p) == [place_id |-> 2, name |-> BranchNames[p], reviews_count |-> NoCount]
Big(p) ==
    [i \in 1..MAX_LOCATIONS_TARGET |->
        [place_id |-> 100 * p + i, name |-> BranchNames[p], reviews_count |-> i]]
ParsedResults(p) ==
    {<<>>, <<Shared(p)>>, <<Shared(p), Unrated(p), SharedAgain(p)>>, Big(p)}

\* Lines 309-311: every location of the partition gets the country's name.
AddCountry(locations, p) ==
    [i \in 1..Len(locations) |->
        [place_id |-> locations[i].place_id, name |-> locations[i].name,
         reviews_count |-> locations[i].reviews_count, country |-> Country(p)]]

\* Lines 339-344 without the seen_place_ids test.
RECURSIVE MergeFutureNoSeenCheck(_, _, _)
MergeFutureNoSeenCheck(all, seen, locations) ==
    IF locations = <<>>
    THEN [all_locations |-> all, seen_place_ids |-> seen]
    ELSE LET loc == Head(locations)
         IN MergeFutureNoSeenCheck(Append(all, loc), seen \cup {loc.place_id},
                                   Tail(locations))

\* Lines 339-344: the locations of one future, appended unless their
\* place_id was merged before.
RECURSIVE MergeFuture(_, _, _)
MergeFuture(all, seen, locations) ==
    IF locations = <<>>
    THEN [all_locations |-> all, seen_place_ids |-> seen]
    ELSE LET loc == Head(locations)
         IN IF loc.place_id \notin seen
            THEN MergeFuture(Append(all, loc), seen \cup {loc.place_id}, Tail(locations))
            ELSE MergeFuture(all, seen, Tail(locations))

\* The merged list left in arrival order.
SortByReviewsArrivalOrder(locations) == locations

\* Line 353: key=lambda x: x.get("reviews_count") or 0
SortKey(loc) == IF loc.reviews_count = NoCount THEN 0 ELSE loc.reviews_count
\* list.sort(reverse=True) is stable: a location goes behind every location
\* whose key is not smaller.
InsertByKey(sorted, loc) ==
    LET k == Cardinality({i \in 1..Len(sorted) : SortKey(sorted[i]) >= SortKey(loc)})
    IN SubSeq(sorted, 1, k) \o <<loc>> \o SubSeq(sorted, k + 1, Len(sorted))
RECURSIVE SortByReviews(_)
SortByReviews(locations) ==
    IF locations = <<>>
    THEN <<>>
    ELSE InsertByKey(SortByReviews(SubSeq(locations, 1, Len(locations) - 1)),
                     locations[Len(locations)])

LogOf(p, locations) == [i \in 1..Len(locations) |-> [partition |-> p, loc |-> locations[i]]]

\* task_discover_locations, main.py:176-178: the first status write of the
\* discovery job, made by the thread that runs the task.
TaskDiscoverStart ==
    /\ mpc = "task"
    /\ \E put_ok \in BOOLEAN :
          statusStore' = update_job_status(statusStore, "running", put_ok)
    /\ mpc' = "start"
    /\ UNCHANGED <<tpc, partResult, consumed, all_locations, seen_place_ids, mergeLog,
                   inflightAtTrip, fanOutput, failure>>
    /\ UNCHANGED jobVarsButStatus
    /\ UNCHANGED sessionVars
    /\ UNCHANGED serviceVars

\* Lines 273-284: the calling thread reports through the progress callback, a
\* running write of main.py:180-182, in both branches: without credentials
\* (line 279) [] is returned after it; otherwise (lines 283-284) the
\* submission of the countries follows.
StartDiscovery ==
    /\ mpc = "start"
    /\ \E credentials \in BOOLEAN, put_ok \in BOOLEAN :
          /\ statusStore' = update_job_status(statusStore, "running", put_ok)
          /\ mpc' = IF credentials THEN "submit" ELSE "returned"
    /\ UNCHANGED <<tpc, partResult, consumed, all_locations, seen_place_ids, mergeLog,
                   inflightAtTrip, fanOutput, failure>>
    /\ UNCHANGED jobVarsButStatus
    /\ UNCHANGED sessionVars
    /\ UNCHANGED serviceVars

\* Lines 328-332: executor.submit for the next country of ordered_countries.
\* The pool has a thread for every country, so a submitted search_country
\* runs while the later countries are still being submitted; the merge loop
\* starts after the last submit.
Submit(p) ==
    /\ mpc = "submit"
    /\ tpc[p] = "unsubmitted"
    /\ \A q \in 1..(p - 1) : tpc[q] # "unsubmitted"
    /\ tpc' = [tpc EXCEPT ![p] = "submitted"]
    /\ mpc' = IF p = MaxPartitions THEN "collect" ELSE "submit"
    /\ UNCHANGED <<partResult, consumed, all_locations, seen_place_ids, mergeLog,
                   inflightAtTrip, fanOutput, failure>>
    /\ UNCHANGED jobVars
    /\ UNCHANGED sessionVars
    /\ UNCHANGED serviceVars

\* search_country, lines 292-293, with the progress_callback of
\* main.task_discover_locations (main.py:180-182): the pool thread starts and
\* enters update_job_status, the put_object of the job's status record.
SearchCountryReport(p) ==
    /\ tpc[p] = "submitted"
    /\ tpc' = [tpc EXCEPT ![p] = "reporting"]
    /\ UNCHANGED <<mpc, partResult, consumed, all_locations, seen_place_ids, mergeLog,
                   inflightAtTrip, fanOutput, failure>>
    /\ UNCHANGED jobVars
    /\ UNCHANGED sessionVars
    /\ UNCHANGED serviceVars

\* Threads that are inside update_job_status for the job.
StatusWriters == {p \in Partitions : tpc[p] = "reporting"}

\* main.py:180-182 as called at lines 292-293: the put_object of the thread's
\* running record ends, and the thread goes on to the create request.
SearchCountryReported(p) ==
    /\ tpc[p] = "reporting"
    /\ \E put_ok \in BOOLEAN :
          statusStore' = update_job_status(statusStore, "running", put_ok)
    /\ tpc' = [tpc EXCEPT ![p] = "creating"]
    /\ UNCHANGED <<mpc, partResult, consumed, all_locations, seen_place_ids, mergeLog,
                   inflightAtTrip, fanOutput, failure>>
    /\ UNCHANGED jobVarsButStatus
    /\ UNCHANGED sessionVars
    /\ UNCHANGED serviceVars

\* search_country, lines 301-304: the create request of the partition is
\* answered.  Without a task id the thread returns [].
SearchCountryCreate(p) ==
    /\ tpc[p] = "creating"
    /\ UNCHANGED statusStore
    /\ \E o \in CreateOutcomes :
          IF create_task(o).task_id # None
          THEN /\ tpc' = [tpc EXCEPT ![p] = "inflight"]
               /\ UNCHANGED <<partResult, failure>>
          ELSE /\ tpc' = [tpc EXCEPT ![p] = "done"]
               /\ partResult' = [partResult EXCEPT ![p] = <<>>]
               /\ failure' = [failure EXCEPT ![p] = "create_failed"]
    /\ UNCHANGED <<mpc, consumed, all_locations, seen_place_ids, mergeLog,
                   inflightAtTrip, fanOutput>>
    /\ UNCHANGED jobVarsButStatus
    /\ UNCHANGED sessionVars
    /\ UNCHANGED serviceVars

\* How a session that has a task id can fail: _poll_for_maps_results gives up
\* after its attempts and returns [] (line 179), or something in the try block
\* of search_country raises and its except-branch returns [] (lines 314-316).
\* Either way the future completes with [].
SessionFailures == {"session_failed"}

\* search_country, lines 307-316: the session ends, its items are parsed and
\* tagged, and the future completes (with [] after a timeout or an exception).
SearchCountryReturn(p) ==
    /\ tpc[p] = "inflight"
    /\ \E locations \in ParsedResults(p), f \in SessionFailures \cup {"none"} :
          /\ f # "none" => locations = <<>>
          /\ partResult' = [partResult EXCEPT ![p] = AddCountry(locations, p)]
          /\ failure' = [failure EXCEPT ![p] = f]
    /\ tpc' = [tpc EXCEPT ![p] = "done"]
    /\ UNCHANGED <<mpc, consumed, all_locations, seen_place_ids, mergeLog,
                   inflightAtTrip, fanOutput>>
    /\ UNCHANGED jobVars
    /\ UNCHANGED sessionVars
    /\ UNCHANGED serviceVars

\* Lines 334-348: as_completed hands over a finished future; its locations
\* are merged, and the loop is left when the target is reached or no future
\* remains.
MergeCompleted(p) ==
    /\ mpc = "collect"
    /\ tpc[p] = "done"
    /\ p \notin consumed
    /\ LET merged == MergeFuture(all_locations, seen_place_ids, partResult[p])
           break == Len(merged.all_locations) >= MAX_LOCATIONS_TARGET
       IN /\ all_locations' = merged.all_locations
          /\ seen_place_ids' = merged.seen_place_ids
          /\ mpc' = IF break \/ consumed \cup {p} = Partitions THEN "exit" ELSE "collect"
          /\ inflightAtTrip' = IF break THEN {q \in Partitions : tpc[q] = "inflight"}
                                        ELSE inflightAtTrip
    /\ consumed' = consumed \cup {p}
    /\ mergeLog' = mergeLog \o LogOf(p, partResult[p])
    /\ UNCHANGED <<tpc, partResult, fanOutput, failure>>
    /\ UNCHANGED jobVars
    /\ UNCHANGED sessionVars
    /\ UNCHANGED serviceVars

\* discover_maps_links if the executor were shut down without waiting for
\* its threads.
SortAndReturnNoWait ==
    /\ mpc = "exit"
    /\ all_locations' = SortByReviews(all_locations)
    /\ fanOutput' = SortByReviews(all_locations)
    /\ mpc' = "returned"
    /\ UNCHANGED <<tpc, partResult, consumed, seen_place_ids, mergeLog, inflightAtTrip,
                   failure>>
    /\ UNCHANGED jobVars
    /\ UNCHANGED sessionVars
    /\ UNCHANGED serviceVars

\* Lines 328 and 353-357: leaving the with block waits for every thread of
\* the executor; then the merged list is sorted in place and returned.
SortAndReturn ==
    /\ mpc = "exit"
    /\ \A p \in Partitions : tpc[p] = "done"
    /\ all_locations' = SortByReviews(all_locations)
    /\ fanOutput' = SortByReviews(all_locations)
    /\ mpc' = "returned"
    /\ UNCHANGED <<tpc, partResult, consumed, seen_place_ids, mergeLog, inflightAtTrip,
                   failure>>
    /\ UNCHANGED jobVars
    /\ UNCHANGED sessionVars
    /\ UNCHANGED serviceVars

\* task_discover_locations, main.py:184-196: discover_maps_links has returned
\* and the completed record of the discovery job is written; with a session
\* id the update of the session's job_config follows.
TaskDiscoverEnd ==
    /\ mpc = "returned"
    /\ \E put_ok \in BOOLEAN, session_id \in BOOLEAN :
          /\ statusStore' = update_job_status(statusStore, "completed", put_ok)
          /\ mpc' = IF session_id THEN "session" ELSE "task_done"
    /\ UNCHANGED <<tpc, partResult, consumed, all_locations, seen_place_ids, mergeLog,
                   inflightAtTrip, fanOutput, failure>>
    /\ UNCHANGED jobVarsButStatus
    /\ UNCHANGED sessionVars
    /\ UNCHANGED serviceVars

\* task_discover_locations, main.py:196-225: boto3.client (line 198) is
\* inside the outer try only: when it raises, the outer except-branch writes
\* status error over the completed record.  With a client, job_config of the
\* session is read and rewritten inside the inner try (another key; a missing
\* config and every failure are logged).
UpdateSessionConfig ==
    /\ mpc = "session"
    /\ \E client_ok \in BOOLEAN, put_ok \in BOOLEAN :
          /\ (client_ok => put_ok)
          /\ statusStore' = IF client_ok THEN statusStore
                            ELSE update_job_status(statusStore, "error", put_ok)
    /\ mpc' = "task_done"
    /\ UNCHANGED <<tpc, partResult, consumed, all_locations, seen_place_ids, mergeLog,
                   inflightAtTrip, fanOutput, failure>>
    /\ UNCHANGED jobVarsButStatus
    /\ UNCHANGED sessionVars
    /\ UNCHANGED serviceVars

\* No discovery task is running.
NoFanOut ==
    /\ mpc = "idle"
    /\ tpc = [p \in Partitions |-> "unsubmitted"]
    /\ partResult = [p \in Partitions |-> <<>>]
    /\ consumed = {}
    /\ all_locations = <<>>
    /\ seen_place_ids = {}
    /\ mergeLog = <<>>
    /\ inflightAtTrip = {}
    /\ fanOutput = <<>>
    /\ failure = [p \in Partitions |-> "none"]

(***************************************************************************)
(* scrape_multiple_locations (fetch_maps_reviews.py:306-380): a create call *)
(* for every location first, then the sessions are polled by a pool of      *)
(* ReviewsMaxWorkers threads.                                               *)
(***************************************************************************)
Locations == 1..MaxLocations
\* Sessions that exist at the provider and have not ended.
OpenSessions == {i \in Locations : sess[i] \in {"created", "polling"}}
\* poll_task threads running.
Polling == {i \in Locations : sess[i] = "polling"}

\* Lines 331-353: the next location's create call; a location without a task
\* id is left out.  After the last one: return an empty frame when no task
\* was created, else sleep 3 s and enter the pool.
CreateNext ==
    /\ bpc = "create"
    /\ LET i == Cardinality({j \in Locations : sess[j] # "none"}) + 1
       IN  \E o \in CreateOutcomes :
             LET made == create_task(o).task_id # None
                 tasks == IF made THEN tasks_created \cup {i} ELSE tasks_created
             IN  /\ sess' = [sess EXCEPT ![i] = IF made THEN "created" ELSE "failed"]
                 /\ tasks_created' = tasks
                 /\ bpc' = IF i < batch_locations THEN "create"
                           ELSE IF tasks = {} THEN "returned" ELSE "pool"
    /\ UNCHANGED <<batch_locations, all_results>>
    /\ UNCHANGED <<jobVars, sessionVars, fanVars>>
    /\ UNCHANGED queueVars
    /\ UNCHANGED apiVars
    /\ UNCHANGED ckVars

\* Lines 363-364: a free pool thread takes the oldest submitted task and
\* starts _poll_for_results for it.
PollTaskStart(i) ==
    /\ bpc = "pool"
    /\ sess[i] = "created"
    /\ \A j \in 1..(i - 1) : sess[j] # "created"
    /\ Cardinality(Polling) < ReviewsMaxWorkers
    /\ sess' = [sess EXCEPT ![i] = "polling"]
    /\ UNCHANGED <<bpc, batch_locations, tasks_created, all_results>>
    /\ UNCHANGED <<jobVars, sessionVars, fanVars>>
    /\ UNCHANGED queueVars
    /\ UNCHANGED apiVars
    /\ UNCHANGED ckVars

\* poll_task, lines 356-361: the session ends, with reviews or without.
PollTaskReturn(i) ==
    /\ sess[i] = "polling"
    /\ \E rows \in BOOLEAN :
          sess' = [sess EXCEPT ![i] = IF rows THEN "done_rows" ELSE "done_empty"]
    /\ UNCHANGED <<bpc, batch_locations, tasks_created, all_results>>
    /\ UNCHANGED <<jobVars, sessionVars, fanVars>>
    /\ UNCHANGED queueVars
    /\ UNCHANGED apiVars
    /\ UNCHANGED ckVars

\* Lines 366-373: as_completed hands over a finished future; a non-empty
\* frame is appended to all_results.
CollectResult(i) ==
    /\ bpc = "pool"
    /\ sess[i] \in {"done_rows", "done_empty"}
    /\ all_results' = IF sess[i] = "done_rows" THEN all_results + 1 ELSE all_results
    /\ sess' = [sess EXCEPT ![i] = "collected"]
    /\ UNCHANGED <<bpc, batch_locations, tasks_created>>
    /\ UNCHANGED <<jobVars, sessionVars, fanVars>>
    /\ UNCHANGED queueVars
    /\ UNCHANGED apiVars
    /\ UNCHANGED ckVars

\* Lines 375-380: every future was taken; the frames are concatenated.
BatchReturn ==
    /\ bpc = "pool"
    /\ \A i \in tasks_created : sess[i] = "collected"
    /\ bpc' = "returned"
    /\ UNCHANGED <<batch_locations, sess, tasks_created, all_results>>
    /\ UNCHANGED <<jobVars, sessionVars, fanVars>>
    /\ UNCHANGED queueVars
    /\ UNCHANGED apiVars
    /\ UNCHANGED ckVars

\* scrape_multiple_locations is not running.
NoBatch ==
    /\ bpc = "idle"
    /\ batch_locations = 0
    /\ sess = [i \in Locations |-> "none"]
    /\ tasks_created = {}
    /\ all_results = 0

(***************************************************************************)
(* Several worker processes running worker.main (worker.py:103-143) on the  *)
(* same queue.  A received message is hidden from other consumers for the   *)
(* queue's visibility window; worker.py never extends the window.           *)
(***************************************************************************)
Workers == 1..MaxWorkers
QueueMessages == 1..MaxMessages
Idle == [pc |-> "receive", msg |-> 0]

\* QueueService.send_message (queue_service.py 13-30): a producer puts the
\* message on the queue, where it is visible to every receiver; a failed
\* send raises to the caller and leaves the queue as it was.
QueueSend(m) ==
    /\ qmsg[m] = "unsent"
    /\ \E sent \in BOOLEAN :
          qmsg' = [qmsg EXCEPT ![m] = IF sent THEN "visible" ELSE "unsent"]
    /\ UNCHANGED <<qbody, deliveries, wk>>
    /\ UNCHANGED <<jobVars, sessionVars, fanVars>>
    /\ UNCHANGED batchVars
    /\ UNCHANGED apiVars
    /\ UNCHANGED ckVars

\* worker.py 113-119 and QueueService.receive_messages (queue_service.py
\* 32-47): a worker takes a visible message.  (A receive that fails or finds
\* nothing returns [] and the worker polls again: no state changes.)
WorkerReceive(w, m) ==
    /\ wk[w].pc = "receive"
    /\ qmsg[m] = "visible"
    /\ deliveries[m] < MaxDeliveries
    /\ qmsg' = [qmsg EXCEPT ![m] = "inflight"]
    /\ deliveries' = [deliveries EXCEPT ![m] = @ + 1]
    /\ wk' = [wk EXCEPT ![w] = [pc |-> "process", msg |-> m]]
    /\ UNCHANGED qbody
    /\ UNCHANGED <<jobVars, sessionVars, fanVars>>
    /\ UNCHANGED batchVars
    /\ UNCHANGED apiVars
    /\ UNCHANGED ckVars

\* The worker is inside process_message for its message.
InHandler(w) ==
    /\ wk[w].pc = "process"
    /\ qbody[wk[w].msg].decodable

\* worker.py 120-136: json.loads of the body and process_message.  A body
\* that is not JSON (line 121) or not an object (line 34) raises; the scraping
\* and analysis branches return or raise; the analyze_website branch and an
\* unknown task type return.  A branch that returns may have stored its
\* output: scrapped_data/{job}.csv, analysis_results/{job}.json, or the
\* analyzed artifact.  After a return the delete follows; after a raise the
\* error is logged and the worker is back to receiving.
WorkerProcess(w) ==
    /\ wk[w].pc = "process"
    /\ \E returned \in BOOLEAN, stored \in BOOLEAN :
          LET b == qbody[wk[w].msg]
          IN  /\ (~b.decodable \/ ~b.object) => ~returned
              /\ (b.object /\ b.task_type \in {"analyze_website", "unknown"})
                     => returned
              /\ stored => (returned /\ b.task_type # "unknown")
              /\ scrapedData' = (scrapedData \/ (stored /\ b.task_type = "scraping"))
              /\ analysisResults' =
                    (analysisResults \/ (stored /\ b.task_type = "analyze_website"))
              /\ artifacts' = IF stored /\ b.task_type = "analysis"
                              THEN artifacts + 1 ELSE artifacts
              /\ wk' = [wk EXCEPT ![w] = IF returned
                                         THEN [pc |-> "delete", msg |-> wk[w].msg]
                                         ELSE Idle]
    /\ UNCHANGED <<qmsg, qbody, deliveries>>
    /\ UNCHANGED <<inputVars, runVars, histVars, statusStore, checkpointStore>>
    /\ UNCHANGED <<wpc, msgState, receiveCount, deleteCalls, killed>>
    /\ UNCHANGED <<sessionVars, fanVars>>
    /\ UNCHANGED batchVars
    /\ UNCHANGED <<apc, background_tasks, scrap, response, jobConfig, answer>>
    /\ UNCHANGED ckVars

\* worker.py 128 and QueueService.delete_message: the delete, whose failure
\* is swallowed.
WorkerDelete(w) ==
    /\ wk[w].pc = "delete"
    /\ \E delete_ok \in BOOLEAN :
          qmsg' = [qmsg EXCEPT ![wk[w].msg] = delete_message(@, delete_ok)]
    /\ wk' = [wk EXCEPT ![w] = Idle]
    /\ UNCHANGED <<qbody, deliveries>>
    /\ UNCHANGED <<jobVars, sessionVars, fanVars>>
    /\ UNCHANGED batchVars
    /\ UNCHANGED apiVars
    /\ UNCHANGED ckVars

\* The queue: the visibility window of a received message ends, whatever
\* the worker that holds it is doing.
QueueVisibilityTimeout(m) ==
    /\ qmsg[m] = "inflight"
    /\ qmsg' = [qmsg EXCEPT ![m] = "visible"]
    /\ UNCHANGED <<qbody, deliveries, wk>>
    /\ UNCHANGED <<jobVars, sessionVars, fanVars>>
    /\ UNCHANGED batchVars
    /\ UNCHANGED apiVars
    /\ UNCHANGED ckVars

\* No worker pool is modelled.
NoQueue ==
    /\ qmsg = [m \in QueueMessages |-> "deleted"]
    /\ qbody = [m \in QueueMessages |-> NoMessage]
    /\ deliveries = [m \in QueueMessages |-> 0]
    /\ wk = [w \in Workers |-> Idle]

(***************************************************************************)
(* main.py: the background tasks that write under one job id, and           *)
(* check_status, the endpoint a polling client calls with that id.          *)
(***************************************************************************)
NoAnswer == [status |-> "none", source |-> "none", stored |-> "none"]

\* check_status (main.py:343-389): the answer, or the exception that leaves
\* it.  boto3.client (line 346) is outside every try.  Path A answers from
\* job_config, path B from the status record, path C from the scraped file
\* (head_object); a failed read falls through to the next path, a failed
\* head_object to the pending answer.  "stored" keeps the status the record
\* held at the time of the call.
check_status(config, store, csv, client_ok, config_get_ok, status_get_ok, head_ok) ==
    IF ~client_ok
    THEN [status |-> "raised", source |-> "exception", stored |-> store.status]
    ELSE IF config /\ config_get_ok
    THEN [status |-> "completed", source |-> "job_config", stored |-> store.status]
    ELSE IF store.status # "none" /\ status_get_ok
    THEN [status |-> store.status, source |-> "processing_status", stored |-> store.status]
    ELSE IF csv /\ head_ok
    THEN [status |-> "completed", source |-> "scrapped_data", stored |-> store.status]
    ELSE [status |-> "pending", source |-> "default", stored |-> store.status]

\* task_analyze_website, main.py:112-114: the first status write.
AnalyzeWebsiteStart ==
    /\ apc = "new"
    /\ \E put_ok \in BOOLEAN :
          statusStore' = update_job_status(statusStore, "running", put_ok)
    /\ apc' = "analyzing"
    /\ UNCHANGED <<background_tasks, scrap, response, jobConfig, scrapedData, answer>>
    /\ UNCHANGED <<jobVarsButStatus, sessionVars, fanVars, batchVars, queueVars, ckVars>>

\* task_analyze_website, main.py:116-145: on success the job config is
\* written and the status record is left alone; on failure status error.
AnalyzeWebsiteEnd ==
    /\ apc = "analyzing"
    /\ \E analyzed \in BOOLEAN, put_ok \in BOOLEAN :
          IF analyzed
          THEN /\ jobConfig' = TRUE
               /\ apc' = "configured"
               /\ UNCHANGED statusStore
          ELSE /\ statusStore' = update_job_status(statusStore, "error", put_ok)
               /\ apc' = "analysis_failed"
               /\ UNCHANGED jobConfig
    /\ UNCHANGED <<background_tasks, scrap, response, scrapedData, answer>>
    /\ UNCHANGED <<jobVarsButStatus, sessionVars, fanVars, batchVars, queueVars, ckVars>>

\* api_update_job_metadata_manual, main.py:426-457, for any job id at any
\* time: the job config is written, created when it does not exist; when the
\* client, the read or the put fails the request is answered with HTTP 500
\* and nothing is written.
UpdateJobMetadata ==
    /\ apc # "idle"
    /\ \E written \in BOOLEAN :
          /\ jobConfig' = (jobConfig \/ written)
          /\ response' = IF written THEN "ok" ELSE "http_500"
    /\ UNCHANGED <<apc, background_tasks, scrap, scrapedData, answer, statusStore>>
    /\ UNCHANGED <<jobVarsButStatus, sessionVars, fanVars, batchVars, queueVars, ckVars>>

ScrapTasks == 1..MaxScrapTasks

\* api_scrap_reviews with request.job_id (main.py:410-423), accepted for any
\* job id at any time: task_scrap_reviews is added to the background tasks
\* and the request is answered; the endpoint stores nothing and the task has
\* not run yet.
api_scrap_reviews(t) ==
    /\ apc # "idle"
    /\ scrap[t] = "unstarted"
    /\ t \notin background_tasks
    /\ background_tasks' = background_tasks \cup {t}
    /\ response' = "ok"
    /\ UNCHANGED <<apc, scrap, jobConfig, scrapedData, answer, statusStore>>
    /\ UNCHANGED <<jobVarsButStatus, sessionVars, fanVars, batchVars, queueVars, ckVars>>

\* task_scrap_reviews, main.py:147-149: after the response was sent the
\* added task runs its first statement, a running write under the job id.
ScrapStart(t) ==
    /\ t \in background_tasks
    /\ scrap[t] = "unstarted"
    /\ \E put_ok \in BOOLEAN :
          statusStore' = update_job_status(statusStore, "running", put_ok)
    /\ scrap' = [scrap EXCEPT ![t] = "scraping"]
    /\ background_tasks' = background_tasks \ {t}
    /\ UNCHANGED <<apc, response, jobConfig, scrapedData, answer>>
    /\ UNCHANGED <<jobVarsButStatus, sessionVars, fanVars, batchVars, queueVars, ckVars>>

\* task_scrap_reviews, main.py:151-153: run_scraper_service reports through
\* the progress callback, a running write.
ScrapProgress(t) ==
    /\ scrap[t] = "scraping"
    /\ \E put_ok \in BOOLEAN :
          statusStore' = update_job_status(statusStore, "running", put_ok)
    /\ UNCHANGED <<apc, background_tasks, scrap, response, jobConfig, scrapedData,
                   answer>>
    /\ UNCHANGED <<jobVarsButStatus, sessionVars, fanVars, batchVars, queueVars, ckVars>>

\* task_scrap_reviews, main.py:155-156: run_scraper_service returns, with the
\* scraped file uploaded or without data, or it raises.
ScrapReturn(t) ==
    /\ scrap[t] = "scraping"
    /\ \E result \in {"data", "no_data", "raised"} :
          /\ scrapedData' = (scrapedData \/ result = "data")
          /\ scrap' = [scrap EXCEPT ![t] = IF result = "raised" THEN "raised"
                                           ELSE "returned"]
    /\ UNCHANGED <<apc, background_tasks, response, jobConfig, answer, statusStore>>
    /\ UNCHANGED <<jobVarsButStatus, sessionVars, fanVars, batchVars, queueVars, ckVars>>

\* task_scrap_reviews, main.py:157-174: status completed is written after the
\* return, status error after the exception.
ScrapEnd(t) ==
    /\ scrap[t] \in {"returned", "raised"}
    /\ \E put_ok \in BOOLEAN :
          statusStore' =
               update_job_status(statusStore,
                                 IF scrap[t] = "raised" THEN "error" ELSE "completed",
                                 put_ok)
    /\ scrap' = [scrap EXCEPT ![t] = "done"]
    /\ UNCHANGED <<apc, background_tasks, response, jobConfig, scrapedData, answer>>
    /\ UNCHANGED <<jobVarsButStatus, sessionVars, fanVars, batchVars, queueVars, ckVars>>

\* GET /api/check-status?job_id=...: the answer is returned, or the request
\* ends with HTTP 500 when check_status raised.
CheckStatus ==
    /\ apc # "idle"
    /\ \E client_ok \in BOOLEAN, config_get_ok \in BOOLEAN, status_get_ok \in BOOLEAN,
          head_ok \in BOOLEAN :
          LET result == check_status(jobConfig, statusStore, scrapedData, client_ok,
                                     config_get_ok, status_get_ok, head_ok)
          IN  /\ answer' = IF result.status = "raised" THEN answer ELSE result
              /\ response' = IF result.status = "raised" THEN "http_500" ELSE "ok"
    /\ UNCHANGED <<apc, background_tasks, scrap, jobConfig, scrapedData, statusStore>>
    /\ UNCHANGED <<jobVarsButStatus, sessionVars, fanVars, batchVars, queueVars, ckVars>>

\* No background task of main.py has been started.
NoApi ==
    /\ apc = "idle"
    /\ background_tasks = {}
    /\ scrap = [t \in ScrapTasks |-> "unstarted"]
    /\ response = "none"
    /\ jobConfig = FALSE
    /\ scrapedData = FALSE
    /\ answer = NoAnswer

\* A handler that always reports an error after the call.
TaskEndStatusAlwaysError(p, e) == "error"

\* task_final_analysis, main.py:238-249: the status the wrapper writes after
\* analyze_reviews: error when the call raised or result.get("error") is
\* truthy (an 'error' value of "" is not), nothing otherwise.
TaskEndStatus(p, e) ==
    IF p = "raised" \/ e \notin {None, ""}
    THEN "error"
    ELSE "none"

\* task_final_analysis, main.py:227-231: the handler's first status write.
TaskStart ==
    /\ caller = "task"
    /\ wpc = "task_start"
    /\ \E put_ok \in BOOLEAN :
        /\ Charge(Failed(put_ok))
        /\ statusStore' = update_job_status(statusStore, "running", put_ok)
        /\ lastWritten' = update_job_status(lastWritten, "running", put_ok)
    /\ wpc' = "task_check"
    /\ UNCHANGED <<msgState, receiveCount, analysisResults, deleteCalls, killed, runVars, runs,  prevProcessed, prevDue, prevOutcome, prevSaveFailed,
                   checkpointStore, artifacts, inputVars>>
    /\ UNCHANGED <<sessionVars, fanVars, serviceVars>>

\* task_final_analysis, main.py:233-240: without the API key status error is
\* written and the handler returns; else analyze_reviews is called with the
\* job id.
TaskCheckKey ==
    /\ caller = "task"
    /\ wpc = "task_check"
    /\ IF openai_key
       THEN /\ BeginRun(JobId)
            /\ wpc' = "task_call"
       ELSE /\ \E put_ok \in BOOLEAN :
                /\ Charge(Failed(put_ok))
                /\ statusStore' = update_job_status(statusStore, "error", put_ok)
                /\ lastWritten' = update_job_status(lastWritten, "error", put_ok)
            /\ wpc' = "task_done"
            /\ UNCHANGED <<runVars, runs,  prevProcessed, prevDue, prevOutcome, prevSaveFailed, checkpointStore,
                           artifacts, inputVars>>
    /\ UNCHANGED <<msgState, receiveCount, analysisResults, deleteCalls, killed>>
    /\ UNCHANGED <<sessionVars, fanVars, serviceVars>>

\* task_final_analysis, main.py:240-249: analyze_reviews returned or raised.
TaskEnd ==
    /\ caller = "task"
    /\ wpc = "task_call"
    /\ pc \in {"returned", "raised"}
    /\ LET status == TaskEndStatus(pc, error_text)
       IN  \E put_ok \in BOOLEAN :
            /\ (status = "none" => put_ok)
            /\ Charge(Failed(put_ok))
            /\ statusStore' = IF status = "none" THEN statusStore
                              ELSE update_job_status(statusStore, status, put_ok)
            /\ lastWritten' = IF status = "none" THEN lastWritten
                              ELSE update_job_status(lastWritten, status, put_ok)
    /\ wpc' = "task_done"
    /\ UNCHANGED <<msgState, receiveCount, analysisResults, deleteCalls, killed, runVars, runs,  prevProcessed, prevDue, prevOutcome, prevSaveFailed,
                   checkpointStore, artifacts, inputVars>>
    /\ UNCHANGED <<sessionVars, fanVars, serviceVars>>

(***************************************************************************)
(* load_checkpoint, save_checkpoint and the checkpoint removal of          *)
(* analyze_reviews.py, called on their own in any order on one store entry.*)
(***************************************************************************)
\* One entry of a result list.
Entries == [index : 0..(MaxFreeItems - 1), result : {"labelled", NeutralDefault}]
\* The result lists passed to save_checkpoint: entries in source order, as the
\* loop appends them.
ResultLists ==
    {l \in UNION {[1..n -> Entries] : n \in 0..MaxFreeItems} :
        \A j \in 1..(Len(l) - 1) : l[j].index < l[j + 1].index}
JobIds == {JobId, None}
NoOp == [name |-> "none", jid |-> None, ok |-> TRUE, exception |-> None]
NothingSaved == [present |-> FALSE, list |-> <<>>]

\* save_checkpoint(jid, items)
StoreSave ==
    /\ \E jid \in JobIds, items \in ResultLists, put_ok \in BOOLEAN :
        /\ checkpointStore' = save_checkpoint(checkpointStore, jid, items, put_ok)
        /\ last_saved' = IF jid = None \/ ~put_ok
                        THEN last_saved
                        ELSE [present |-> TRUE, list |-> items]
        /\ ck_op' = [name |-> "save", jid |-> jid, ok |-> put_ok, exception |-> None]
    /\ UNCHANGED ck_loaded
    /\ UNCHANGED <<inputVars, runVars, histVars, workerVars, statusStore, artifacts>>
    /\ UNCHANGED <<sessionVars, fanVars, batchVars, queueVars, apiVars>>

\* load_checkpoint(jid): it returns a list, or an exception leaves it and
\* the caller gets no list.
StoreLoad ==
    /\ \E jid \in JobIds, get \in LoadOutcomes :
        LET call == load_checkpoint(checkpointStore, jid, get)
        IN  /\ ck_loaded' = IF call.exception = None THEN call.data ELSE ck_loaded
            /\ ck_op' = [name |-> "load", jid |-> jid, ok |-> (get = "ok"),
                         exception |-> call.exception]
    /\ UNCHANGED <<last_saved, checkpointStore>>
    /\ UNCHANGED <<inputVars, runVars, histVars, workerVars, statusStore, artifacts>>
    /\ UNCHANGED <<sessionVars, fanVars, batchVars, queueVars, apiVars>>

\* Lines 452-457: delete_object on the checkpoint key.
StoreClear ==
    /\ \E jid \in JobIds, delete_ok \in BOOLEAN :
        /\ checkpointStore' = delete_checkpoint(checkpointStore, jid, delete_ok)
        /\ last_saved' = IF jid = None \/ ~delete_ok THEN last_saved ELSE NothingSaved
        /\ ck_op' = [name |-> "clear", jid |-> jid, ok |-> delete_ok,
                   exception |-> None]
    /\ UNCHANGED ck_loaded
    /\ UNCHANGED <<inputVars, runVars, histVars, workerVars, statusStore, artifacts>>
    /\ UNCHANGED <<sessionVars, fanVars, batchVars, queueVars, apiVars>>

\* No checkpoint function has been called on its own.
NoStoreOps ==
    /\ ck_op = NoOp
    /\ last_saved = NothingSaved
    /\ ck_loaded = <<>>

\* No other service is running.
NoService == NoBatch /\ NoQueue /\ NoApi /\ NoStoreOps

\* No session of the external task client is in progress.
NoSession ==
    /\ provider = "maps"
    /\ spc = "idle"
    /\ createLog = <<>>
    /\ task_id = None
    /\ attempt = 0
    /\ wait_time = 0
    /\ waits = <<>>
    /\ pollLog = <<>>
    /\ polls = 0
    /\ last_response = "none"
    /\ sessionResult = "pending"

(***************************************************************************)
(* Specification.                                                          *)
(***************************************************************************)
ItemCounts == (0..MaxFreeItems) \cup {CheckpointEvery, MaxItems}
\* Sizes of the collection a task of the API server analyses: the short ones
\* and the smallest one with a checkpoint save.
TaskItemCounts == (0..MaxFreeItems) \cup {CheckpointEvery + 1}


\* The state before the first run of the job.
Init ==
    /\ \/ /\ caller = "direct"
          /\ message = NoMessage
          /\ msgState = "none"
          /\ dimensions = "list"
          /\ openai_key = TRUE
          /\ total_reviews \in ItemCounts
          /\ text_column \in BOOLEAN
       \/ /\ caller = "worker"
          /\ message \in MessageBodies
          /\ msgState = "visible"
          /\ dimensions \in {"list", None}
          /\ openai_key \in BOOLEAN
          /\ total_reviews \in ItemCounts
          /\ text_column \in BOOLEAN
          \* inputs the handler never reads are fixed
          /\ (message.task_type # "analysis" \/ ~openai_key =>
                 total_reviews = 0 /\ dimensions = "list" /\ text_column)
          /\ (dimensions = None => total_reviews = 0 /\ text_column)
    /\ statusStore = NoRecord
    /\ checkpointStore = NoCheckpoint
    /\ artifacts = 0
    /\ pc = "idle"
    /\ job_id = None
    /\ idx = 0
    /\ analyzed_results = <<>>
    /\ processed_indices = {}
    /\ labels = <<>>
    /\ outcome = "none"
    /\ callLog = <<>>
    /\ save_failed = FALSE
    /\ loop_done = FALSE
    /\ exception = None
    /\ error_text = None
    /\ saveLog = <<>>
    /\ prevOutcome = "none"
    /\ prevSaveFailed = FALSE
    /\ lastWritten = NoRecord
    /\ runs = 0
    /\ faults = 0
    /\ prevProcessed = 0
    /\ prevDue = Due(0)
    /\ wpc = "receive"
    /\ receiveCount = 0
    /\ analysisResults = FALSE
    /\ deleteCalls = {}
    /\ killed = FALSE
    /\ NoSession
    /\ NoFanOut
    /\ NoService

Next ==
    \/ StartDirect
    \/ ReadSource
    \/ InitialStatus
    \/ LoadCheckpoint
    \/ LoopHead
    \/ LoopCheckpoint
    \/ Classify
    \/ Merge
    \/ Upload
    \/ Finally
    \/ Complete
    \/ Cleanup
    \/ ReturnResult
    \/ Crash
    \/ Receive
    \/ DecodeError
    \/ DispatchAnalysis
    \/ DispatchReturn
    \/ DispatchNotObject
    \/ DispatchScraping
    \/ DispatchWebsite
    \/ HandlerReturned
    \/ HandlerRaised
    \/ DeleteMessage
    \/ VisibilityTimeout

Spec == Init /\ [][Next]_vars

\* No job is being handled: the worker side in its state after start-up.
NoJob ==
    /\ caller = "direct"
    /\ message = NoMessage
    /\ msgState = "none"
    /\ dimensions = "list"
    /\ openai_key = TRUE
    /\ total_reviews = 0
    /\ text_column = TRUE
    /\ statusStore = NoRecord
    /\ checkpointStore = NoCheckpoint
    /\ artifacts = 0
    /\ pc = "idle"
    /\ job_id = None
    /\ idx = 0
    /\ analyzed_results = <<>>
    /\ processed_indices = {}
    /\ labels = <<>>
    /\ outcome = "none"
    /\ callLog = <<>>
    /\ save_failed = FALSE
    /\ loop_done = FALSE
    /\ exception = None
    /\ error_text = None
    /\ saveLog = <<>>
    /\ prevOutcome = "none"
    /\ prevSaveFailed = FALSE
    /\ lastWritten = NoRecord
    /\ runs = 0
    /\ faults = 0
    /\ prevProcessed = 0
    /\ prevDue = Due(0)
    /\ wpc = "receive"
    /\ receiveCount = 0
    /\ analysisResults = FALSE
    /\ deleteCalls = {}
    /\ killed = FALSE

\* One session of the task client, for either provider call-site.
SessionInit ==
    /\ provider \in {"maps", "reviews"}
    /\ spc = "create"
    /\ createLog = <<>>
    /\ task_id = None
    /\ attempt = 0
    /\ wait_time = 0
    /\ waits = <<>>
    /\ pollLog = <<>>
    /\ polls = 0
    /\ last_response = "none"
    /\ sessionResult = "pending"
    /\ NoJob
    /\ NoFanOut
    /\ NoService

SessionNext ==
    \/ CreateTask
    \/ Sleep
    \/ Poll
    \/ Timeout

SessionSpec == SessionInit /\ [][SessionNext]_vars

\* One discovery task: task_discover_locations and its call of
\* discover_maps_links.
FanInit ==
    /\ mpc = "task"
    /\ tpc = [p \in Partitions |-> "unsubmitted"]
    /\ partResult = [p \in Partitions |-> <<>>]
    /\ consumed = {}
    /\ all_locations = <<>>
    /\ seen_place_ids = {}
    /\ mergeLog = <<>>
    /\ inflightAtTrip = {}
    /\ fanOutput = <<>>
    /\ failure = [p \in Partitions |-> "none"]
    /\ NoJob
    /\ NoSession
    /\ NoService

FanNext ==
    \/ TaskDiscoverStart
    \/ StartDiscovery
    \/ \E p \in Partitions : Submit(p)
    \/ \E p \in Partitions : SearchCountryReport(p)
    \/ \E p \in Partitions : SearchCountryReported(p)
    \/ \E p \in Partitions : SearchCountryCreate(p)
    \/ \E p \in Partitions : SearchCountryReturn(p)
    \/ \E p \in Partitions : MergeCompleted(p)
    \/ SortAndReturn
    \/ TaskDiscoverEnd
    \/ UpdateSessionConfig

FanSpec == FanInit /\ [][FanNext]_vars

\* One call of scrape_multiple_locations with a non-empty list.
BatchInit ==
    /\ bpc = "create"
    /\ batch_locations \in 1..MaxLocations
    /\ sess = [i \in Locations |-> "none"]
    /\ tasks_created = {}
    /\ all_results = 0
    /\ NoJob
    /\ NoSession
    /\ NoFanOut
    /\ NoQueue
    /\ NoApi
    /\ NoStoreOps

BatchNext ==
    \/ CreateNext
    \/ \E i \in Locations : PollTaskStart(i)
    \/ \E i \in Locations : PollTaskReturn(i)
    \/ \E i \in Locations : CollectResult(i)
    \/ BatchReturn

BatchSpec == BatchInit /\ [][BatchNext]_vars

\* MaxWorkers processes started on an empty queue to which MaxMessages
\* messages are sent.
QueueInit ==
    /\ qmsg = [m \in QueueMessages |-> "unsent"]
    /\ qbody \in [QueueMessages -> MessageBodies]
    /\ deliveries = [m \in QueueMessages |-> 0]
    /\ wk = [w \in Workers |-> Idle]
    /\ NoJob
    /\ NoSession
    /\ NoFanOut
    /\ NoBatch
    /\ NoApi
    /\ NoStoreOps

QueueNext ==
    \/ \E m \in QueueMessages : QueueSend(m)
    \/ \E w \in Workers, m \in QueueMessages : WorkerReceive(w, m)
    \/ \E w \in Workers : WorkerProcess(w)
    \/ \E w \in Workers : WorkerDelete(w)
    \/ \E m \in QueueMessages : QueueVisibilityTimeout(m)

QueueSpec == QueueInit /\ [][QueueNext]_vars

\* The API server with one job id that no task has used yet.
ApiInit ==
    /\ apc = "new"
    /\ background_tasks = {}
    /\ scrap = [t \in ScrapTasks |-> "unstarted"]
    /\ response = "none"
    /\ jobConfig = FALSE
    /\ scrapedData = FALSE
    /\ answer = NoAnswer
    /\ NoJob
    /\ NoSession
    /\ NoFanOut
    /\ NoBatch
    /\ NoQueue
    /\ NoStoreOps

ApiNext ==
    \/ AnalyzeWebsiteStart
    \/ AnalyzeWebsiteEnd
    \/ UpdateJobMetadata
    \/ \E t \in ScrapTasks : api_scrap_reviews(t)
    \/ \E t \in ScrapTasks : ScrapStart(t)
    \/ \E t \in ScrapTasks : ScrapProgress(t)
    \/ \E t \in ScrapTasks : ScrapReturn(t)
    \/ \E t \in ScrapTasks : ScrapEnd(t)
    \/ CheckStatus

ApiSpec == ApiInit /\ [][ApiNext]_vars

\* One run of task_final_analysis for JobId.
TaskInit ==
    /\ caller = "task"
    /\ message = NoMessage
    /\ msgState = "none"
    /\ dimensions \in {"list", None}
    /\ openai_key \in BOOLEAN
    /\ total_reviews \in TaskItemCounts
    /\ text_column \in BOOLEAN
    /\ statusStore = NoRecord
    /\ checkpointStore = NoCheckpoint
    /\ artifacts = 0
    /\ pc = "idle"
    /\ job_id = None
    /\ idx = 0
    /\ analyzed_results = <<>>
    /\ processed_indices = {}
    /\ labels = <<>>
    /\ outcome = "none"
    /\ callLog = <<>>
    /\ save_failed = FALSE
    /\ loop_done = FALSE
    /\ exception = None
    /\ error_text = None
    /\ saveLog = <<>>
    /\ prevOutcome = "none"
    /\ prevSaveFailed = FALSE
    /\ lastWritten = NoRecord
    /\ runs = 0
    /\ faults = 0
    /\ prevProcessed = 0
    /\ prevDue = Due(0)
    /\ wpc = "task_start"
    /\ receiveCount = 0
    /\ analysisResults = FALSE
    /\ deleteCalls = {}
    /\ killed = FALSE
    /\ NoSession
    /\ NoFanOut
    /\ NoService

TaskNext ==
    \/ TaskStart
    \/ TaskCheckKey
    \/ ReadSource
    \/ InitialStatus
    \/ LoadCheckpoint
    \/ LoopHead
    \/ LoopCheckpoint
    \/ Classify
    \/ Merge
    \/ Upload
    \/ Finally
    \/ Complete
    \/ Cleanup
    \/ ReturnResult
    \/ TaskEnd

TaskSpec == TaskInit /\ [][TaskNext]_vars

\* The checkpoint functions on an empty store.
StoreInit ==
    /\ NoStoreOps
    /\ NoJob
    /\ NoSession
    /\ NoFanOut
    /\ NoBatch
    /\ NoQueue
    /\ NoApi

StoreNext ==
    \/ StoreSave
    \/ StoreLoad
    \/ StoreClear

StoreSpec == StoreInit /\ [][StoreNext]_vars


(***************************************************************************)
(* Derived values used by the properties.                                  *)
(***************************************************************************)
Running == pc \notin Finished
\* The loop of lines 203-310 of the latest run has run to its end.
LoopDone == loop_done
Called == {callLog[j].index : j \in 1..Len(callLog)}
StoredIndices == Indices(json_loads(checkpointStore.data))
\* In-memory results the stored checkpoint does not hold.
Unsaved == Indices(analyzed_results) \ StoredIndices

(***************************************************************************)
(* Properties of the worker loop.                                          *)
(***************************************************************************)
\* C1: the worker deletes a message only from the step that follows a return
\* of process_message (of analyze_reviews, or of a branch that ends inside
\* process_message), never after the handler raised or died; and once the
\* handler has raised (in analyze_reviews, in the scraping branch, or on a
\* body that is not an object), the message is still in the queue (in flight
\* or visible again) and the worker is not about to delete it.
C1_AckOnlyAfterReturn ==
    [][ /\ (msgState # "deleted" /\ msgState' = "deleted")
            => (wpc = "delete" /\ pc \in {"idle", "returned"})
        /\ (wpc # "delete" /\ wpc' = "delete")
            => \/ wpc = "process" /\ pc = "returned"
               \/ wpc = "dispatch" /\ message.object
        /\ (caller = "worker" /\ pc' = "raised")
            => (msgState' \in {"inflight", "visible"} /\ wpc' # "delete")
        /\ (wpc = "dispatch" /\ wpc' = "receive")
            => msgState' \in {"inflight", "visible"}
      ]_vars

\* C1 witness: a first delivery whose handler raised was not acknowledged, the
\* message was delivered again, and the second handler run returned and the
\* message was deleted.
C1_Witness ==
    /\ caller = "worker"
    /\ receiveCount = 2
    /\ prevOutcome = "raised"
    /\ outcome = "ok"
    /\ msgState = "deleted"

\* C2: when the source collection cannot be read, the job's status record is
\* `error` and the message that carried the job is left in the queue.
C2_UnreadableSourceIsErrorAndUnacked ==
    (caller = "worker" /\ outcome = "read_error" /\ wpc = "receive" /\ ~killed)
        => (statusStore.status = "error" /\ msgState # "deleted")

\* C3: a handler run started for a redelivered message, after an earlier run
\* that failed or crashed past the checkpoint cadence (more than 50 results:
\* prevDue.before is 50 or more),
\* does not start again from zero: it makes no classification call for the
\* items the earlier run's checkpoint covers.
C3_RedeliveredRunResumes ==
    (/\ caller = "worker"
     /\ runs >= 2
     /\ prevOutcome \in {"crashed", "raised"}
     /\ prevDue.before >= CheckpointEvery)
        => \A i \in Called : i >= CheckpointEvery


(***************************************************************************)
(* Properties of the checkpointed classifier.                              *)
(***************************************************************************)
\* Number of results of the latest save of the current run that reached the
\* store; 0 when none did.
LastSavedSize ==
    LET reached == {j \in 1..Len(saveLog) : saveLog[j].ok}
    IN  IF reached = {} THEN 0
        ELSE saveLog[CHOOSE j \in reached : \A i \in reached : i <= j].results

\* delete_object of lines 452-457 has removed the checkpoint and
\* analyze_reviews has not returned yet.
CheckpointDeleted == pc = "return" /\ ~checkpointStore.present

Reclassified(skip) == (0..(prevProcessed - 1)) \ skip

C6_CheckpointedItemsNotReclassified ==
    (job_id = JobId /\ processed_indices # {})
        => /\ \A j \in 1..Len(callLog) : callLog[j].index \notin processed_indices
           /\ (runs = 2 /\ faults = 0)
                  => Cardinality(processed_indices) \in {prevDue.at, prevDue.before}

\* C6 witness: the first run was killed with 100 results, 50 of them stored;
\* the second run loaded the 50, classified item 60 again and returned.
C6_Witness ==
    /\ runs = 2
    /\ job_id = JobId
    /\ Cardinality(processed_indices) = CheckpointEvery
    /\ prevDue = [at |-> 2 * CheckpointEvery, before |-> CheckpointEvery]
    /\ 60 \in Called
    /\ pc = "returned"

\* C7: when a run completes, the merged output has N rows, every source item
\* has exactly one result, and every row has a non-null label.
C7_EveryRowLabelled ==
    (pc = "returned" /\ outcome = "ok")
        => /\ Len(labels) = total_reviews
           /\ \A i \in 0..(total_reviews - 1) :
                 Cardinality({j \in 1..Len(analyzed_results) :
                                 analyzed_results[j].index = i}) = 1
           /\ \A r \in 1..Len(labels) : labels[r] # None

\* Outcomes of a classification call that the except-branch catches.
RaisingOutcomes == {"api_error", "unparsable"}
\* Results of calls that succeeded or raised.
SucceededOrRaised ==
    {ClassifyEntry(0, o).result : o \in RaisingOutcomes \cup {"ok", "partial"}}

\* C8: whatever calls raise, the calls of a run are made for the unskipped
\* items in source order, each appends exactly one entry for its item (the
\* neutral default when the call raised), the loop ends only after every
\* unskipped item was visited, and a run whose results, loaded ones included,
\* all come from calls that succeeded or raised ends in no other way than
\* `completed` (the source can be read and has its text column, the artifact
\* file can be written, no store operation fails).
C8_LoopSurvivesItemFailures ==
    /\ \A j \in 1..Len(callLog) :
          /\ callLog[j].index \notin processed_indices
          /\ j > 1 => callLog[j - 1].index < callLog[j].index
    /\ (pc \notin {"idle", "crashed", "read", "status", "load"})
           => /\ Len(analyzed_results)
                    = Cardinality(processed_indices) + Len(callLog)
              /\ LET loaded == Len(analyzed_results) - Len(callLog)
                 IN  \A j \in 1..Len(callLog) :
                        /\ analyzed_results[loaded + j].index = callLog[j].index
                        /\ callLog[j].outcome \in RaisingOutcomes
                               => analyzed_results[loaded + j].result = NeutralDefault
    /\ (LoopDone /\ pc # "crashed")
           => Called = (0..(total_reviews - 1)) \ processed_indices
    /\ (/\ pc \in {"returned", "raised"} /\ faults = 0 /\ dimensions = "list"
        /\ outcome # "read_error" /\ text_column /\ exception # "OSError"
        /\ \A j \in 1..Len(callLog) :
              callLog[j].outcome \in RaisingOutcomes \cup {"ok", "partial"}
        /\ \A k \in 1..Len(analyzed_results) :
              analyzed_results[k].result \in SucceededOrRaised)
           => /\ pc = "returned"
              /\ outcome = "ok"
              /\ job_id # None => statusStore.status = "completed"

\* C8 witness: a run resumed from a checkpoint of 50 results skipped them; its
\* first call, for item 50, raised and left the neutral default; the loop went
\* on over the other 50 items and the job is `completed`.
C8_Witness ==
    /\ job_id = JobId
    /\ total_reviews = MaxItems
    /\ runs = 2
    /\ processed_indices = 0..(CheckpointEvery - 1)
    /\ Len(callLog) = MaxItems - CheckpointEvery
    /\ callLog[1] = [index |-> CheckpointEvery, outcome |-> "api_error"]
    /\ analyzed_results[CheckpointEvery + 1].result = NeutralDefault
    /\ pc = "returned"
    /\ statusStore.status = "completed"

\* C9: a call that returned malformed output (unparsable text, a parsed
\* value that is not an object, or an object whose topics are not a list of
\* objects) left the neutral default for its item, and no error of the merge
\* leaves the run.
C9_MalformedOutputIsItemFailure ==
    /\ \A j \in 1..Len(callLog) :
          callLog[j].outcome \in {"unparsable", "non_object", "bad_topics"}
              => \A k \in 1..Len(analyzed_results) :
                    analyzed_results[k].index = callLog[j].index
                        => analyzed_results[k].result = NeutralDefault
    /\ exception # "AttributeError"

\* C10: the stored checkpoint is removed only in a state in which the job's
\* status record is `completed`.
C10_DeletedOnlyWhenCompleted ==
    [][ (checkpointStore.present /\ ~checkpointStore'.present)
            => statusStore.status = "completed" ]_vars

\* C11: when a run with a job id has completed successfully, the checkpoint
\* store holds no entry for the job.
C11_NoCheckpointAfterCompletion ==
    (job_id = JobId /\ pc = "returned" /\ outcome = "ok")
        => ~checkpointStore.present

\* C12: once a message was delivered a second time after its first handler run
\* failed, and has then been acknowledged, the job has one final state,
\* `completed`, and one set of job-level outputs (one artifact).
C12_RedeliveryEndsInOneCompletedJob ==
    (/\ caller = "worker"
     /\ receiveCount = 2
     /\ prevOutcome \in {"raised", "crashed"}
     /\ outcome = "ok"
     /\ msgState = "deleted")
        => /\ statusStore.status = "completed"
           /\ artifacts = 1

(***************************************************************************)
(* Properties of the external async task client.                           *)
(***************************************************************************)
\* C13: a session issues at most max_attempts polls, and a session that has
\* returned without any terminal status (the last answer was a processing or
\* unrecognized status, an answer without tasks or a request error) has issued
\* exactly max_attempts polls and returned an empty result.
C13_TimeoutReturnsEmpty ==
    /\ polls <= MaxAttempts(provider)
    /\ spc \in {"create", "failed", "sleep", "poll", "timeout", "returned"}
    /\ (spc = "returned" /\ last_response \notin TerminalResponses)
           => /\ polls = MaxAttempts(provider)
              /\ sessionResult = "empty"

\* C13 witness: a review-fetching session whose 15 polls were a mix of
\* non-terminal answers, ending with a request error, returned empty.
C13_Witness ==
    /\ provider = "reviews"
    /\ spc = "returned"
    /\ pollLog = <<"processing", "unknown", "no_tasks">>
    /\ last_response = "exception"
    /\ polls = ReviewsPollAttempts
    /\ sessionResult = "empty"

\* C14: the waits before successive polls are non-decreasing and at most the
\* ceiling of the call-site; a session answered processing, processing,
\* success has issued exactly 3 polls and returned the items.
C14_BackoffShape ==
    /\ \A i \in 1..Len(waits) :
          /\ waits[i] <= WaitCeiling(provider)
          /\ i > 1 => waits[i - 1] <= waits[i]
    /\ (spc = "returned"
        /\ pollLog = <<"processing", "processing", "success_items">>)
           => /\ polls = 3
              /\ Len(waits) = 3
              /\ sessionResult = "items"

\* C14 witness: the scripted location-search session, with waits of 1 s, 1.5 s
\* and 2.25 s.
C14_Witness ==
    /\ provider = "maps"
    /\ spc = "returned"
    /\ pollLog = <<"processing", "processing", "success_items">>
    /\ waits = <<1000, 1500, 2250>>
    /\ sessionResult = "items"

\* C15: when the first create request of a location-search session failed with
\* a transport error, create was attempted again before the session went on or
\* failed.
C15_CreateRetriedOnTransportError ==
    (/\ provider = "maps"
     /\ spc # "create"
     /\ createLog # <<>>
     /\ createLog[1] = "transport_error")
        => Len(createLog) > 1

\* C16: the poll that receives a terminal status ends the session with the
\* provider's items (success) or an empty result (success without items, no
\* match), and a session that has returned issues no further poll.
C16_TerminalStatusEndsSession ==
    [][ /\ (polls' # polls /\ last_response' \in TerminalResponses)
            => /\ spc' = "returned"
               /\ sessionResult' = IF last_response' = "success_items"
                                   THEN "items" ELSE "empty"
        /\ spc = "returned" => (polls' = polls /\ spc' = "returned")
      ]_vars

\* C16 witness: the second poll of a session got the no-match status and the
\* session returned empty after 2 polls.
C16_Witness ==
    /\ spc = "returned"
    /\ last_response = "no_match"
    /\ polls = 2
    /\ sessionResult = "empty"

\* C17: an unrecognized status has the effect of a processing status: the same
\* decision, the same next wait (grown by the same factor, up to the same
\* ceiling), and the session goes on polling while attempts remain.
C17_UnknownHandledLikeProcessing ==
    /\ spc = "poll"
           => PollOutcome("unknown", wait_time, WaitCeiling(provider))
                  = PollOutcome("processing", wait_time, WaitCeiling(provider))
    /\ (last_response \in {"unknown", "processing"} /\ spc \in {"sleep", "timeout"})
           => wait_time = Grow(waits[Len(waits)], WaitCeiling(provider))
    /\ (last_response \in {"unknown", "processing"}
        /\ polls < MaxAttempts(provider))
           => spc \in {"sleep", "poll"}

\* C17 witness: the first poll of a location search got an unrecognized status;
\* the session is about to sleep 1.5 s before its second poll.
C17_Witness ==
    /\ provider = "maps"
    /\ last_response = "unknown"
    /\ polls = 1
    /\ spc = "sleep"
    /\ wait_time = 1500

\* The place_ids of a list of locations.
PlaceIds(locations) == {locations[i].place_id : i \in 1..Len(locations)}
\* The first entry of mergeLog with the given place_id.
FirstOffered(id) ==
    mergeLog[CHOOSE k \in 1..Len(mergeLog) :
                /\ mergeLog[k].loc.place_id = id
                /\ \A j \in 1..(k - 1) : mergeLog[j].loc.place_id # id]

\* C18: when the merged count reaches the target, every partition session
\* that is in flight at that moment completes and its results are still
\* merged: none of its locations is missing from the returned list.
C18_InFlightResultsStillMerged ==
    mpc = "returned"
        => \A p \in inflightAtTrip : PlaceIds(partResult[p]) \subseteq PlaceIds(fanOutput)

\* C19: once the merged count has reached MAX_LOCATIONS_TARGET, no create
\* call is issued for any partition.
C19_NoCreateAfterTarget ==
    [][ Len(all_locations) >= MAX_LOCATIONS_TARGET
            => \A p \in Partitions :
                  tpc[p] \in {"submitted", "reporting"}
                      => tpc'[p] \in {"submitted", "reporting"} ]_vars

\* C20: the merged list holds at most one location per place_id; the one it
\* holds is the first that was offered to the merge, with that location's
\* own attributes and the country of the partition that produced it; the
\* returned list holds the same locations.
C20_FirstMergedSurvives ==
    /\ \A i, j \in 1..Len(all_locations) :
          all_locations[i].place_id = all_locations[j].place_id => i = j
    /\ PlaceIds(all_locations) = {mergeLog[k].loc.place_id : k \in 1..Len(mergeLog)}
    /\ \A i \in 1..Len(all_locations) :
          LET first == FirstOffered(all_locations[i].place_id)
          IN /\ all_locations[i] = first.loc
             /\ all_locations[i].country = Country(first.partition)
    /\ mpc = "returned" => /\ Len(fanOutput) = Len(all_locations)
                           /\ \A i \in 1..Len(fanOutput) :
                                 \E j \in 1..Len(all_locations) : fanOutput[i] = all_locations[j]
\* The second partition was merged first, the first partition found the same
\* two places, and the returned list has each place once, as the second
\* partition reported it.
C20_Witness ==
    /\ mpc = "returned"
    /\ Len(mergeLog) = 4
    /\ mergeLog[1].partition = 2
    /\ {1, 2} \subseteq consumed
    /\ partResult[1] = AddCountry(<<Shared(1), Unrated(1), SharedAgain(1)>>, 1)
    /\ Len(fanOutput) = 2
    /\ \E i \in 1..2 : /\ fanOutput[i].place_id = 1
                        /\ fanOutput[i].name = BranchNames[2]
                        /\ fanOutput[i].country = Country(2)
    /\ \E i \in 1..2 : /\ fanOutput[i].place_id = 2
                        /\ fanOutput[i].country = Country(1)

\* C21: at every instant at most ReviewsMaxWorkers sessions of a batch review
\* fetch exist at the provider without having ended; a further location's
\* session is created only when a slot is free.
C21_AtMostKOpenSessions ==
    Cardinality(OpenSessions) <= ReviewsMaxWorkers

\* C22: the list discover_maps_links returns is in non-increasing order of
\* reviews_count, a location without a count ranking as zero, whatever the
\* order in which the partitions completed.
C22_OutputSortedByReviews ==
    mpc = "returned"
        => \A i, j \in 1..Len(fanOutput) :
              i < j => (IF fanOutput[i].reviews_count = NoCount THEN 0
                        ELSE fanOutput[i].reviews_count)
                       >= (IF fanOutput[j].reviews_count = NoCount THEN 0
                           ELSE fanOutput[j].reviews_count)
\* Two places of the first partition, one of them unrated, were merged before
\* the thirty of another partition, which arrive in increasing order of
\* reviews_count: the returned list starts with the most reviewed place and
\* ends with the unrated one.
C22_Witness ==
    /\ mpc = "returned"
    /\ Len(fanOutput) = MAX_LOCATIONS_TARGET + 2
    /\ mergeLog[1].partition = 1
    /\ mergeLog[2].loc.reviews_count = NoCount
    /\ fanOutput[1].reviews_count = MAX_LOCATIONS_TARGET
    /\ fanOutput[Len(fanOutput)].reviews_count = NoCount

\* C23: no two worker processes are inside process_message for the same
\* message (the same job) at the same time.
C23_OneHandlerPerJob ==
    \A w1, w2 \in Workers :
        (w1 # w2 /\ InHandler(w1) /\ InHandler(w2))
            => wk[w1].msg # wk[w2].msg

\* C24: the writes of one job's status record are issued by one thread at a
\* time: no two threads are inside update_job_status for the job together.
C24_OneStatusWriterAtATime ==
    Cardinality(StatusWriters) <= 1

\* C25: what check_status returns for a job id is the record most recently
\* written to the status store for that id, or the pending answer when none
\* was written; it is never made from another stored object.
C25_StatusAnswerIsLatestRecord ==
    answer # NoAnswer
        => /\ answer.status = IF answer.stored = "none" THEN "pending" ELSE answer.stored
           /\ answer.source \in {"processing_status", "default"}

\* C26: within one run, each status record written for the job has processed
\* and total counters at least as large as those of the record written
\* before it, the final completed or error record included.
C26_CountersNeverDecrease ==
    [][ (lastWritten.status # "none" /\ lastWritten'.status # "none")
            => /\ lastWritten'.processed >= lastWritten.processed
               /\ lastWritten'.total >= lastWritten.total ]_vars

\* C27: the status values written during one handler run are running zero
\* or more times and then at most one terminal value: once completed or
\* error has been written, no later write of the run carries another status.
C27_StatusLifecycle ==
    [][ (lastWritten.status \in {"completed", "error"} /\ runs' = runs)
            => lastWritten'.status = lastWritten.status ]_vars
\* The upload failed: analyze_reviews wrote error with counters, and the
\* handler then wrote error again, without counters.
C27_Witness ==
    /\ caller = "task"
    /\ wpc = "task_done"
    /\ outcome = "upload_error"
    /\ lastWritten.status = "error"
    /\ lastWritten.processed = NoCounter
    /\ faults = 1

\* C28: a run over an empty collection makes no classification call and
\* saves no checkpoint; with a job id, a source that could be read, a writable
\* artifact file and no failing store operation it returns with the status
\* record completed, processed 0 of total 0.
C28_EmptyCollectionCompletes ==
    (total_reviews = 0 /\ pc # "idle")
        => /\ callLog = <<>>
           /\ analyzed_results = <<>>
           /\ ~checkpointStore.present
           /\ ~save_failed
           /\ (/\ job_id = JobId /\ faults = 0 /\ exception # "OSError"
               /\ outcome # "read_error" /\ pc \in {"returned", "raised"})
                  => /\ outcome = "ok"
                     /\ statusStore = [status |-> "completed", processed |-> 0,
                                       total |-> 0]
C28_Witness ==
    /\ total_reviews = 0
    /\ job_id = JobId
    /\ pc = "returned"
    /\ outcome = "ok"
    /\ callLog = <<>>
    /\ faults = 0
    /\ statusStore.status = "completed"
    /\ artifacts = 1

\* C29: for a message whose body cannot be decoded the worker starts no
\* handler and never deletes the message, and its loop is back at receiving
\* after the failed decode (it stops nowhere else).
C29_MalformedMessageSkipped ==
    (caller = "worker" /\ ~message.decodable)
        => /\ runs = 0
           /\ pc = "idle"
           /\ msgState \in {"visible", "inflight"}
           /\ wpc \in {"receive", "dispatch"}
           /\ statusStore = NoRecord
\* The undecodable message was delivered a second time: the loop went on
\* after the first failed decode.
C29_Witness ==
    /\ caller = "worker"
    /\ ~message.decodable
    /\ receiveCount = 2
    /\ wpc = "receive"
    /\ msgState = "inflight"

\* The saves of the current run that failed.
FailedSaves == {j \in 1..Len(saveLog) : ~saveLog[j].ok}

\* C30: a failed checkpoint save does not end the run: the loop still
\* classifies every remaining item, one result per item, and when the saves,
\* one or several, were the only operations that failed the run returns with
\* status completed.
C30_SaveFailureDoesNotAbort ==
    /\ [][ (Len(saveLog') = Len(saveLog) + 1 /\ ~saveLog'[Len(saveLog')].ok)
               => (pc' = "classify" /\ analyzed_results' = analyzed_results) ]_vars
    /\ [](save_failed
            => /\ (LoopDone /\ pc # "crashed")
                      => /\ Len(analyzed_results) = total_reviews
                         /\ Indices(analyzed_results) = 0..(total_reviews - 1)
               /\ (/\ pc \in {"returned", "raised"}
                   /\ faults = Cardinality(FailedSaves)
                   /\ exception = None)
                      => /\ outcome = "ok"
                         /\ statusStore = [status |-> "completed",
                                           processed |-> total_reviews,
                                           total |-> total_reviews])

\* C30 witness: both saves of a run over the large collection, at 50 and at
\* 100 results, failed, and the run returned with status completed.
C30_Witness ==
    /\ total_reviews = MaxItems
    /\ Len(saveLog) = 2
    /\ FailedSaves = {1, 2}
    /\ pc = "returned"
    /\ outcome = "ok"
    /\ Len(analyzed_results) = MaxItems
    /\ statusStore.status = "completed"

(***************************************************************************)
(* Properties of the checkpoint, the finalisation and the cadences.        *)
(***************************************************************************)
IsPrefix(a, b) == Len(a) <= Len(b) /\ \A j \in 1..Len(a) : a[j] = b[j]
\* The index values of a result list are pairwise distinct positions of the
\* source collection.
DistinctPositions(results) ==
    /\ Cardinality(Indices(results)) = Len(results)
    /\ Indices(results) \subseteq 0..(total_reviews - 1)
\* A save_checkpoint call of the current run reached the store.
SavedByRun == \E j \in 1..Len(saveLog) : saveLog[j].ok

\* C31: in every state of a run, fresh or resumed, the index values of the
\* in-memory result list and of the stored checkpoint are pairwise distinct
\* positions of the source collection, and a stored checkpoint that the run
\* wrote is a prefix of the run's in-memory result list.
C31_CheckpointInvariant ==
    [](/\ DistinctPositions(analyzed_results)
       /\ DistinctPositions(json_loads(checkpointStore.data))
       /\ (pc # "crashed" /\ SavedByRun)
              => IsPrefix(json_loads(checkpointStore.data), analyzed_results))

\* C31 witness: a run resumed from a checkpoint of 50 results has saved its
\* 100 results and holds one more.
C31_Witness ==
    /\ runs = 2
    /\ Cardinality(processed_indices) = CheckpointEvery
    /\ SavedByRun
    /\ Len(checkpointStore.data) = 2 * CheckpointEvery
    /\ Len(analyzed_results) = 2 * CheckpointEvery + 1
    /\ pc = "merge"

\* C32: a load that follows a save returns exactly the list of the latest
\* save (the save replaced what was stored), a load returns the empty list
\* when nothing is stored for the job id, and a load after a clear returns
\* the empty list (saves, clears and the loads of a stored list are those
\* that reached the store).
C32_CheckpointStoreContract ==
    /\ (ck_op.name = "load" /\ ck_op.jid = JobId /\ ck_op.ok)
           => ck_loaded = IF last_saved.present THEN last_saved.list ELSE <<>>
    /\ (ck_op.name = "load" /\ ck_op.jid = JobId /\ ~checkpointStore.present)
           => (ck_op.exception = None /\ ck_loaded = <<>>)
    /\ (ck_op.name = "save" /\ ck_op.jid = JobId /\ ck_op.ok)
           => /\ checkpointStore.present
              /\ last_saved.present
              /\ json_loads(checkpointStore.data) = last_saved.list
    /\ (ck_op.name = "clear" /\ ck_op.jid = JobId /\ ck_op.ok)
           => ~checkpointStore.present

\* C33: the completed record is written only after every item of the
\* collection has a result and the artifact has been uploaded; and a run with
\* a job id whose artifact upload failed (nothing else failing) ends with the
\* status record error and has not written completed.
C33_FinalizeOrdering ==
    /\ (lastWritten.status = "completed" /\ pc # "crashed")
           => /\ LoopDone
              /\ Indices(analyzed_results) = 0..(total_reviews - 1)
              /\ artifacts >= 1
    /\ (/\ job_id = JobId /\ pc = "returned" /\ faults = 1
        /\ outcome \in {"upload_error", "no_credentials"})
           => /\ statusStore.status = "error"
              /\ lastWritten.status # "completed"

\* The items whose loop iteration has got past the cadence tests of lines
\* 211-221, in order: those already classified and the one being classified.
Started ==
    [j \in 1..Len(callLog) |-> callLog[j].index]
        \o (IF pc = "classify" THEN <<idx>> ELSE <<>>)
\* len(analyzed_results) when the j-th of them started, in a run that loaded
\* a checkpoint of the given size.
CountAtStart(loaded, j) == loaded + j - 1
SavedAt(i) == {k \in 1..Len(saveLog) : saveLog[k].idx = i}

\* C34: in a run with a job id, save_checkpoint is called exactly at the
\* start of an unskipped item while the in-memory list holds a positive
\* multiple of 50 results (loaded ones included), whether or not a progress
\* record is due there; the save stores the whole in-memory list; and no save
\* follows the classification of the last item.
C34_CheckpointCadence ==
    []((job_id = JobId /\ pc \notin {"idle", "crashed", "read", "status", "load"})
           => \A started \in {Started}, loaded \in {Cardinality(processed_indices)} :
              /\ \A j \in 1..Len(started) :
                    IF /\ CountAtStart(loaded, j) > 0
                       /\ CountAtStart(loaded, j) % CheckpointEvery = 0
                    THEN \E k \in SavedAt(started[j]) :
                             /\ SavedAt(started[j]) = {k}
                             /\ saveLog[k].results = CountAtStart(loaded, j)
                    ELSE SavedAt(started[j]) = {}
              /\ \A k \in 1..Len(saveLog) :
                    \E j \in 1..Len(started) : started[j] = saveLog[k].idx
              /\ (/\ pc = "classify"
                  /\ \E k \in SavedAt(idx) : saveLog[k].ok)
                     => json_loads(checkpointStore.data) = analyzed_results
              /\ LoopDone => \A k \in 1..Len(saveLog) :
                                 saveLog[k].results < Len(analyzed_results))

\* C34 witness: a run resumed from 50 loaded results saved them again at its
\* first item, where no progress record was due, saved 100 results later, and
\* ended its loop.
C34_Witness ==
    /\ job_id = JobId
    /\ total_reviews = MaxItems
    /\ Cardinality(processed_indices) = CheckpointEvery
    /\ Len(saveLog) = 2
    /\ saveLog[1] = [idx |-> CheckpointEvery, results |-> CheckpointEvery, ok |-> TRUE]
    /\ ~ProgressDue(saveLog[1].idx, total_reviews)
    /\ saveLog[2].results = 2 * CheckpointEvery
    /\ pc = "merge"

\* C34 witness: a collection of exactly 50 items was classified to its end and
\* no save was made.
C34_WitnessNoFinalSave ==
    /\ job_id = JobId
    /\ total_reviews = CheckpointEvery
    /\ Len(analyzed_results) = CheckpointEvery
    /\ saveLog = <<>>
    /\ ~checkpointStore.present
    /\ pc = "returned"
    /\ outcome = "ok"

\* C35: in a run with a job id over N items, the record running p of N is
\* written at the start of exactly the unskipped items whose 1-based position
\* p is a multiple of 5 or is N, before the item's classification call, so
\* that the record counts one item more than have been classified (the write
\* at an item is seen in the store when no store operation has failed).
C35_ProgressCadence ==
    /\ (job_id = JobId /\ pc = "classify")
           => IF (idx + 1) % ProgressEvery = 0 \/ idx + 1 = total_reviews
              THEN /\ faults = 0
                          => /\ lastWritten = [status |-> "running",
                                               processed |-> idx + 1,
                                               total |-> total_reviews]
                             /\ lastWritten.processed = Len(analyzed_results) + 1
                   /\ idx \notin Called
              ELSE lastWritten.processed # idx + 1
    /\ (/\ job_id = JobId /\ lastWritten.status = "running"
        /\ lastWritten.processed > 0)
           => /\ \/ lastWritten.processed % ProgressEvery = 0
                 \/ lastWritten.processed = total_reviews
              /\ lastWritten.total = total_reviews
              /\ (lastWritten.processed - 1) \notin processed_indices
              /\ pc # "crashed"
                    => lastWritten.processed <= Len(analyzed_results) + 1

\* C35 witness: the record 101 of 101 has been written for the last item of
\* the large collection, which is not a fifth item, and 100 items have been
\* classified.
C35_Witness ==
    /\ job_id = JobId
    /\ total_reviews = MaxItems
    /\ pc = "classify"
    /\ idx = MaxItems - 1
    /\ lastWritten = [status |-> "running", processed |-> MaxItems,
                      total |-> MaxItems]
    /\ Len(analyzed_results) = MaxItems - 1

(***************************************************************************)
(* Failure handling of the fan-out and of the worker.                      *)
(***************************************************************************)
\* Partitions whose search_country did not fail.
Remaining == {p \in Partitions : failure[p] = "none"}

\* C36: whichever partitions fail (no task id from create, poll timeout, an
\* exception in the session), discover_maps_links does not raise and what it
\* returns is the merge of the results of the partitions that did not fail:
\* the places of those partitions and nothing else, the empty list when every
\* partition failed.
C36_FailedPartitionsIsolated ==
    /\ mpc # "raised"
    /\ (mpc = "returned" /\ \A p \in Partitions : tpc[p] = "done")
           => /\ PlaceIds(fanOutput) = UNION {PlaceIds(partResult[p]) : p \in Remaining}
              /\ \A i \in 1..Len(fanOutput) :
                    \E p \in Remaining : \E k \in 1..Len(partResult[p]) :
                        partResult[p][k] = fanOutput[i]
              /\ Remaining = {} => fanOutput = <<>>

\* How analyze_reviews ends when it returns an error dict.
ErrorResults == {"read_error", "upload_error", "no_credentials"}

\* process_message has returned without an exception for the delivery the
\* worker holds although the task was not carried out: unknown task_type,
\* missing API key, error result.
ReturnedWithoutSuccess ==
    /\ caller = "worker"
    /\ wpc = "delete"
    /\ message.object
    /\ \/ message.task_type = "unknown"
       \/ message.task_type = "analysis" /\ ~openai_key
       \/ message.task_type = "analysis" /\ pc = "returned"
          /\ outcome \in ErrorResults

\* process_message returns without an exception in the step that leaves wpc:
\* from the dispatch of a task that ends inside process_message, or when
\* analyze_reviews has returned.
ReturnStep ==
    /\ wpc' # wpc
    /\ ~killed'
    /\ \/ /\ wpc = "dispatch" /\ message.object
          /\ \/ message.task_type \in {"unknown", "analyze_website"}
             \/ message.task_type = "analysis" /\ ~openai_key
             \/ message.task_type = "scraping" /\ ~scrapedData /\ scrapedData'
       \/ wpc = "process" /\ pc = "returned"

\* worker.main leaves line 128: delete_message was called for the delivery.
DeleteCallStep == wpc = "delete" /\ wpc' # wpc /\ ~killed'

\* C37 as stated: every return of process_message without an exception is
\* followed by the delete call, and the delete call made for an unknown
\* task_type, a missing API key or an error result removes the message, which
\* is never delivered again.
C37_AsStated ==
    [][ /\ ReturnStep => wpc' = "delete"
        /\ DeleteCallStep => receiveCount \in deleteCalls'
        /\ (DeleteCallStep /\ ReturnedWithoutSuccess) => msgState' = "deleted"
        /\ msgState = "deleted"
               => (msgState' = "deleted" /\ receiveCount' = receiveCount)
      ]_vars

\* C37 amended: every return of process_message without an exception (unknown
\* task_type, missing API key, a result that carries an error, a success) is
\* followed at once by the delete call for the message; the delete call
\* removes the message unless the call itself fails; and a removed message is
\* never delivered again.
C37_ReturnLeadsToDeleteCall ==
    [][ /\ ReturnStep => wpc' = "delete"
        /\ DeleteCallStep
               => /\ receiveCount \in deleteCalls'
                  /\ (msgState' = "deleted" \/ faults' = faults + 1)
        /\ msgState = "deleted"
               => (msgState' = "deleted" /\ receiveCount' = receiveCount)
      ]_vars

\* C37 witness: analyze_reviews returned an error dict for the first delivery,
\* the delete call that followed failed, and the message has been delivered a
\* second time.
C37_Witness ==
    /\ caller = "worker"
    /\ message.task_type = "analysis"
    /\ outcome \in ErrorResults
    /\ deleteCalls = {1}
    /\ ~killed
    /\ receiveCount = 2
    /\ msgState = "inflight"
    /\ wpc = "dispatch"

\* C38: the error exits of a run with a job id (unreadable source, failed
\* upload, missing storage credentials) leave the stored checkpoint as it is;
\* after a run that ended at the upload the store still holds the results the
\* run saved last, and the next run of the job, when nothing else fails (its
\* source is read, no other store operation fails), skips exactly those items.
C38_ErrorExitKeepsCheckpoint ==
    /\ [][ (/\ pc \in {"read", "upload", "finally"}
            /\ \/ pc' = "finally"
               \/ pc' = "returned" /\ outcome' \in ErrorResults)
               => checkpointStore' = checkpointStore ]_vars
    /\ [](/\ (/\ job_id = JobId /\ pc = "returned" /\ SavedByRun
              /\ outcome \in {"upload_error", "no_credentials"})
                 => /\ checkpointStore.present
                    /\ IsPrefix(json_loads(checkpointStore.data), analyzed_results)
                    /\ \E k \in 1..Len(saveLog) :
                          /\ saveLog[k].ok
                          /\ saveLog[k].results = Len(checkpointStore.data)
                          /\ \A m \in (k + 1)..Len(saveLog) : ~saveLog[m].ok
          /\ (/\ job_id = JobId /\ runs >= 2 /\ faults = 1
              /\ prevOutcome \in {"upload_error", "no_credentials"}
              /\ outcome # "read_error"
              /\ pc \notin {"read", "status", "load", "crashed"})
                 => /\ processed_indices = 0..(prevDue.before - 1)
                    /\ Called \cap processed_indices = {})

\* C38 witness: the first run over the large collection failed at the upload
\* and left its checkpoint of 100 results; the second run skipped them and
\* classified the one remaining item.
C38_Witness ==
    /\ job_id = JobId
    /\ total_reviews = MaxItems
    /\ runs = 2
    /\ prevOutcome = "upload_error"
    /\ Cardinality(processed_indices) = 2 * CheckpointEvery
    /\ Len(callLog) = MaxItems - 2 * CheckpointEvery
    /\ pc = "returned"
    /\ outcome = "ok"

\* Partition threads that were submitted and have not returned.
UnfinishedThreads ==
    {p \in Partitions : tpc[p] \in {"submitted", "reporting", "creating", "inflight"}}

\* discover_maps_links has returned to task_discover_locations.
DiscoveryReturned == mpc \in {"returned", "session", "task_done"}

\* task_discover_locations has issued its completed write.
CompletedIssued == mpc \in {"session", "task_done"}

\* C39: in a discovery job every running status write that a partition
\* thread issues through the progress callback is over before the completed
\* write is issued: a thread's write ends while discover_maps_links is still
\* submitting, merging or waiting for its executor; discover_maps_links
\* returns, and the completed record is written, only when every partition
\* thread has finished, also after the merge loop was left early; so after
\* the completed write no running write follows, and a record that reads
\* completed never reads running again.
C39_RunningWritesPrecedeCompleted ==
    /\ [][ (\E p \in Partitions : tpc[p] = "reporting" /\ tpc'[p] # "reporting")
               => mpc \in {"submit", "collect", "exit"} ]_vars
    /\ [](DiscoveryReturned => UnfinishedThreads = {})
    /\ [][ CompletedIssued
               => (statusStore' = statusStore \/ statusStore'.status = "error") ]_vars
    /\ [][ statusStore.status = "completed" => statusStore'.status # "running" ]_vars

\* The merge loop was left at the target while the thread of partition 1 was
\* still in its session; the caller waited for it, the future was never
\* merged, and the record reads completed at the end.
C39_Witness ==
    /\ mpc = "task_done"
    /\ Len(all_locations) >= MAX_LOCATIONS_TARGET
    /\ 1 \in inflightAtTrip
    /\ 1 \notin consumed
    /\ partResult[1] # <<>>
    /\ statusStore.status = "completed"

\* C40: when the load of the checkpoint fails, the run goes on as if no
\* checkpoint existed: its result list and skip-set are empty and it
\* classifies from the first item; a run that starts from nothing makes its
\* first save at CheckpointEvery results; and a save that reaches the store
\* replaces what is stored by the list in memory, also when the stored list
\* was longer.
C40_FailedLoadRestartsAndOverwrites ==
    /\ [][ (pc = "load" /\ pc' # "crashed" /\ faults' = faults + 1)
               => /\ analyzed_results' = <<>>
                  /\ processed_indices' = {}
                  /\ pc' = (IF dimensions = None THEN "raised"
                            ELSE LoopEntry(0, total_reviews))
                  /\ dimensions # None => idx' = 0 ]_vars
    /\ [][ (Len(saveLog') = Len(saveLog) + 1 /\ saveLog'[Len(saveLog')].ok)
               => checkpointStore' =
                     [present |-> TRUE, data |-> json_dumps(analyzed_results')] ]_vars
    /\ []((pc \in {"head", "save", "classify", "merge"} /\ processed_indices = {}
            /\ saveLog # <<>>)
              => saveLog[1].results = CheckpointEvery)

====
